---- MODULE Spec2Model ----
(***************************************************************************)
(* A model of @edgefirst-dev/data: the Parser base class, its error        *)
(* classes, and the three adapters FormParser, SearchParamsParser and      *)
(* ObjectParser.                                                           *)
(*                                                                         *)
(* Texts are sequences of one-character strings, so that conversions       *)
(* (Number(text), URL query parsing and serialising, String(key)) are      *)
(* computed character by character.  JavaScript values are records tagged  *)
(* by the field t.  The outcome of a call is Return(value) or Throw(error).*)
(***************************************************************************)
EXTENDS Integers, Sequences, FiniteSets, TLC

VARIABLES
    kind,       \* the adapter class this run exercises: "form", "pubform"
                \* (the FormParser built on src/parser.ts), "query", "object"
    formData,   \* the entry list of the caller's FormData object
    url,        \* the caller's URL object, or NoURL
    heap,       \* the lists of the URLSearchParams objects, by reference
    object,     \* the caller's object
    parser,     \* the adapter instance: NoParser, or [cls, value]
    dto,        \* the Data instance: NoData, or its class, adapter and the
                \* getter invocations of its last toJSON call
    last        \* the last call made: [op, key, arg, out]

vars == <<kind, formData, url, heap, object, parser, dto, last>>
formVars == <<formData>>
queryVars == <<url, heap>>
objectVars == <<object>>

(***************************************************************************)
(* Bounds                                                                  *)
(***************************************************************************)
MaxEntries == 2
MaxParams == 2

(***************************************************************************)
(* Texts                                                                   *)
(***************************************************************************)
RECURSIVE Join(_)
\* The JavaScript string spelled by a sequence of characters.
Join(cs) == IF cs = <<>> THEN "" ELSE Head(cs) \o Join(Tail(cs))

T_empty == <<>>
T_on == <<"o", "n">>
T_25 == <<"2", "5">>
T_m7 == <<" ", "-", "7">>
T_twentyfive == <<"t", "w", "e", "n", "t", "y", "-", "f", "i", "v", "e">>
T_name == <<"n", "a", "m", "e">>
T_age == <<"a", "g", "e">>
T_Alice == <<"A", "l", "i", "c", "e">>
T_filetxt == <<"f", "i", "l", "e", ".", "t", "x", "t">>

T_q == <<"q", "&">>
T_ab == <<"a", " ", "b">>
T_sym == <<"+", "=", "%">>
HttpPrefix == <<"h", "t", "t", "p", ":", "/", "/">>
U_none == <<"h", "t", "t", "p", ":", "/", "/", "e", ".", "c", "o">>
U_name == <<"h", "t", "t", "p", ":", "/", "/", "e", ".", "c", "o", "?", "n",
    "a", "m", "e", "=", "A", "l", "i", "c", "e">>
U_mixed == <<"h", "t", "t", "p", ":", "/", "/", "e", ".", "c", "o", "/",
    "?", "n", "a", "m", "e", "=", "&", "q", "%", "2", "6", "=", "a", "+",
    "b", "&", "n", "a", "m", "e", "=", "A", " ", "b">>
U_bare == <<"h", "t", "t", "p", ":", "/", "/", "e", ".", "c", "o", "/", "?",
    "n", "a", "m", "e", "&", "&", "=", "A", "l", "i", "c", "e">>
U_invalid == <<"n", "a", "m", "e", "=", "A", "l", "i", "c", "e">>

T_toString == <<"t", "o", "S", "t", "r", "i", "n", "g">>
T_length == <<"l", "e", "n", "g", "t", "h">>
T_object == <<"o", "b", "j", "e", "c", "t">>
T_s == <<"s">>
T_f == <<"f">>
T_SymbolOpen == <<"S", "y", "m", "b", "o", "l", "(">>
T_email == <<"e", "m", "a", "i", "l">>
T_emailHost == <<"e", "m", "a", "i", "l", "H", "o", "s", "t">>
T_mail == <<"a", "@", "c", "o">>
T_nomail == <<"a", "c", "o">>
T_constructor == <<"c", "o", "n", "s", "t", "r", "u", "c", "t", "o", "r">>
T_label == <<"l", "a", "b", "e", "l">>
T_nick == <<"n", "i", "c", "k">>
T_id == <<"i", "d">>
T_NaN == <<"N", "a", "N">>

(***************************************************************************)
(* JavaScript values                                                       *)
(***************************************************************************)
Undefined == [t |-> "undefined"]
Null == [t |-> "null"]
Str(cs) == [t |-> "string", s |-> cs]
Num(i) == [t |-> "number", nan |-> FALSE, n |-> i]
NaN == [t |-> "number", nan |-> TRUE, n |-> 0]
Bool(b) == [t |-> "boolean", b |-> b]
File(nm) == [t |-> "File", fname |-> nm]
Arr(items) == [t |-> "Array", items |-> items]
BigIntV(i) == [t |-> "bigint", n |-> i]
Sym(description) == [t |-> "symbol", d |-> description]
Fn(nm) == [t |-> "function", fname |-> nm]
DateV(ms) == [t |-> "Date", ms |-> ms]
\* A plain object: its own properties, a function from property keys (string
\* or symbol values) to values.
Obj(props) == [t |-> "Object", props |-> props]
\* A reference to the caller's object.
ObjectRef == [t |-> "ObjectRef"]
\* A reference to the caller's URL object.
URLRef == [t |-> "URL"]
\* A reference to a URLSearchParams object: "u" is the searchParams of the
\* caller's URL object, "own" that of a URL object the adapter built itself.
ParamsRef(r) == [t |-> "URLSearchParams", ref |-> r]
Request(href) == [t |-> "Request", url |-> href]
\* A reference to the caller's FormData object.
FormDataRef == [t |-> "FormData"]

\* The typeof operator.
TypeOf(v) ==
    CASE v.t = "undefined" -> "undefined"
      [] v.t = "string" -> "string"
      [] v.t = "number" -> "number"
      [] v.t = "boolean" -> "boolean"
      [] v.t = "bigint" -> "bigint"
      [] v.t = "symbol" -> "symbol"
      [] v.t = "function" -> "function"
      [] OTHER -> "object"

\* The characters of a typeof tag.
TagText(tag) ==
    CASE tag = "undefined" -> <<"u", "n", "d", "e", "f", "i", "n", "e", "d">>
      [] tag = "string" -> <<"s", "t", "r", "i", "n", "g">>
      [] tag = "number" -> <<"n", "u", "m", "b", "e", "r">>
      [] tag = "boolean" -> <<"b", "o", "o", "l", "e", "a", "n">>
      [] tag = "bigint" -> <<"b", "i", "g", "i", "n", "t">>
      [] tag = "symbol" -> <<"s", "y", "m", "b", "o", "l">>
      [] tag = "function" -> <<"f", "u", "n", "c", "t", "i", "o", "n">>
      [] tag = "object" -> <<"o", "b", "j", "e", "c", "t">>

\* ToBoolean, as used by the ! operator.
Truthy(v) ==
    CASE v.t \in {"undefined", "null"} -> FALSE
      [] v.t = "string" -> v.s # <<>>
      [] v.t = "number" -> ~v.nan /\ v.n # 0
      [] v.t = "boolean" -> v.b
      [] v.t = "bigint" -> v.n # 0
      [] OTHER -> TRUE

Return(v) == [k |-> "return", v |-> v]
Throw(e) == [k |-> "throw", e |-> e]
(***************************************************************************)
(* Error classes                                                           *)
(***************************************************************************)
\* The extends clauses of src/lib/parser.ts, over the built-in error
\* classes.  None is the end of a prototype chain.
LibExtends(cls) ==
    CASE cls = "Parser.Error" -> "Error"
      [] cls = "Parser.MissingKeyError" -> "Parser.Error"
      [] cls = "Parser.InvalidTypeError" -> "Parser.Error"
      [] cls = "Parser.InvalidInstanceOfError" -> "Parser.Error"
      [] cls = "Parser.CoercionError" -> "Parser.Error"
      [] cls \in {"TypeError", "ReferenceError"} -> "Error"
      [] OTHER -> "None"

\* The name field each class of src/lib/parser.ts overrides.
LibName(cls) ==
    CASE cls = "Parser.Error" -> "ParserError"
      [] cls = "Parser.MissingKeyError" -> "ParserMissingKeyError"
      [] cls = "Parser.InvalidTypeError" -> "ParserInvalidTypeError"
      [] cls = "Parser.InvalidInstanceOfError" -> "ParserInvalidInstanceOfError"
      [] cls = "Parser.CoercionError" -> "ParserCoercionError"
      [] OTHER -> cls

\* An error object: its class, the module that defines the class, its name
\* field and its message.
MissingKeyError(key) ==
    [cls |-> "Parser.MissingKeyError", mod |-> "lib",
     name |-> LibName("Parser.MissingKeyError"),
     message |-> "Key \"" \o Join(key) \o "\" does not exist"]

\* InvalidTypeError with expected and actual exchanged in the message.
InvalidTypeError_Swapped(key, expected, actual) ==
    [cls |-> "Parser.InvalidTypeError", mod |-> "lib",
     name |-> LibName("Parser.InvalidTypeError"),
     message |-> "Key \"" \o Join(key) \o "\" expected " \o actual
                 \o " but got " \o expected]

InvalidTypeError(key, expected, actual) ==
    [cls |-> "Parser.InvalidTypeError", mod |-> "lib",
     name |-> LibName("Parser.InvalidTypeError"),
     message |-> "Key \"" \o Join(key) \o "\" expected " \o expected
                 \o " but got " \o actual]

InvalidInstanceOfError(key, expected) ==
    [cls |-> "Parser.InvalidInstanceOfError", mod |-> "lib",
     name |-> LibName("Parser.InvalidInstanceOfError"),
     message |-> "Key \"" \o Join(key) \o "\" expected instance of " \o expected]

CoercionError(key, type) ==
    [cls |-> "Parser.CoercionError", mod |-> "lib",
     name |-> LibName("Parser.CoercionError"),
     message |-> "Key \"" \o Join(key) \o "\" could not be coerced to " \o type]

\* The extends clauses of src/parser.ts, the module package.json exports as
\* "./parser".  It defines no Parser.Error and no Parser.CoercionError.
PublicExtends(cls) ==
    CASE cls = "Parser.MissingKeyError" -> "ReferenceError"
      [] cls = "Parser.InvalidTypeError" -> "TypeError"
      [] cls = "Parser.InvalidInstanceOfError" -> "Error"
      [] cls \in {"TypeError", "ReferenceError"} -> "Error"
      [] OTHER -> "None"

\* The name field each class of src/parser.ts overrides.
PublicName(cls) ==
    CASE cls = "Parser.MissingKeyError" -> "MissingKeyError"
      [] cls = "Parser.InvalidTypeError" -> "InvalidTypeError"
      [] cls = "Parser.InvalidInstanceOfError" -> "InvalidInstanceOfError"
      [] OTHER -> cls

\* The classes each module's Parser namespace exports.
Exported(mod) ==
    CASE mod = "lib" ->
             {"Parser.Error", "Parser.MissingKeyError", "Parser.InvalidTypeError",
              "Parser.InvalidInstanceOfError", "Parser.CoercionError"}
      [] mod = "public" ->
             {"Parser.MissingKeyError", "Parser.InvalidTypeError",
              "Parser.InvalidInstanceOfError"}
      [] OTHER -> {}

Extends(mod, cls) ==
    IF mod = "public" THEN PublicExtends(cls) ELSE LibExtends(cls)

NameOf(mod, cls) == IF mod = "public" THEN PublicName(cls) ELSE LibName(cls)

RECURSIVE Ancestors(_, _)
\* The classes on the prototype chain above cls.
Ancestors(mod, cls) ==
    IF Extends(mod, cls) = "None" THEN {}
    ELSE {Extends(mod, cls)} \cup Ancestors(mod, Extends(mod, cls))

\* error instanceof Parser.Error, for a caller that imports Parser from mod:
\* false when mod exports no such class (the test itself then throws).
IsParserError(mod, e) ==
    /\ "Parser.Error" \in Exported(mod)
    /\ e.mod = mod
    /\ "Parser.Error" \in {e.cls} \cup Ancestors(e.mod, e.cls)

PublicMissingKeyError(key) ==
    [cls |-> "Parser.MissingKeyError", mod |-> "public",
     name |-> PublicName("Parser.MissingKeyError"),
     message |-> "Key \"" \o Join(key) \o "\" does not exist"]

PublicInvalidTypeError(key, expected, actual) ==
    [cls |-> "Parser.InvalidTypeError", mod |-> "public",
     name |-> PublicName("Parser.InvalidTypeError"),
     message |-> "Key \"" \o Join(key) \o "\" expected " \o expected
                 \o " but got " \o actual]

PublicInvalidInstanceOfError(key, expected) ==
    [cls |-> "Parser.InvalidInstanceOfError", mod |-> "public",
     name |-> PublicName("Parser.InvalidInstanceOfError"),
     message |-> "Key \"" \o Join(key) \o "\" expected instance of " \o expected]

\* The TypeError the JavaScript runtime raises when a method is called on a
\* value that has none (this.value.has(key) on null, a number, ...).
RuntimeTypeError ==
    [cls |-> "TypeError", mod |-> "runtime", name |-> "TypeError",
     message |-> "not a function"]

(***************************************************************************)
(* Number(text)                                                            *)
(***************************************************************************)
Digits == {"0", "1", "2", "3", "4", "5", "6", "7", "8", "9"}

DigitVal(c) ==
    CASE c = "0" -> 0 [] c = "1" -> 1 [] c = "2" -> 2 [] c = "3" -> 3
      [] c = "4" -> 4 [] c = "5" -> 5 [] c = "6" -> 6 [] c = "7" -> 7
      [] c = "8" -> 8 [] c = "9" -> 9

RECURSIVE TrimStart(_)
TrimStart(cs) ==
    IF cs # <<>> /\ Head(cs) = " " THEN TrimStart(Tail(cs)) ELSE cs

RECURSIVE TrimEnd(_)
TrimEnd(cs) ==
    IF cs # <<>> /\ cs[Len(cs)] = " "
    THEN TrimEnd(SubSeq(cs, 1, Len(cs) - 1)) ELSE cs

RECURSIVE DecimalValue(_, _)
\* The value of a digit string, most significant digit first.
DecimalValue(cs, acc) ==
    IF cs = <<>> THEN acc
    ELSE DecimalValue(Tail(cs), acc * 10 + DigitVal(Head(cs)))

\* Number(value) for a text value (StringToNumber): white space is trimmed,
\* the empty text is 0, an optionally signed run of decimal digits is its
\* value, anything else is NaN.  The texts of this model hold no fraction,
\* exponent, radix prefix or "Infinity", the other numeric forms.
NumberOf(cs) ==
    LET body == TrimEnd(TrimStart(cs))
        signed == body # <<>> /\ Head(body) \in {"+", "-"}
        digits == IF signed THEN Tail(body) ELSE body
    IN  IF body = <<>> THEN Num(0)
        ELSE IF digits # <<>> /\ \A i \in 1..Len(digits) : digits[i] \in Digits
             THEN Num(IF signed /\ Head(body) = "-"
                      THEN 0 - DecimalValue(digits, 0)
                      ELSE DecimalValue(digits, 0))
             ELSE NaN
(***************************************************************************)
(* FormData (the platform's multi-valued mapping)                          *)
(***************************************************************************)
\* An entry list is a sequence of [name, value]; a value is a text or a File.
Entry(nm, v) == [name |-> nm, value |-> v]

FD_has(entries, key) == \E i \in 1..Len(entries) : entries[i].name = key

RECURSIVE FD_getAll(_, _)
\* FormData.getAll: the values of every entry named key, in list order.
FD_getAll(entries, key) ==
    IF entries = <<>> THEN <<>>
    ELSE IF Head(entries).name = key
         THEN <<Head(entries).value>> \o FD_getAll(Tail(entries), key)
         ELSE FD_getAll(Tail(entries), key)

\* FormData.get: the value of the first entry named key, or null.
FD_get(entries, key) ==
    IF FD_has(entries, key)
    THEN entries[CHOOSE i \in 1..Len(entries) :
                    /\ entries[i].name = key
                    /\ \A j \in 1..(i - 1) : entries[j].name # key].value
    ELSE Null

\* FormData.append: one more entry at the end of the list.
FD_append(entries, key, v) == Append(entries, Entry(key, v))

RECURSIVE FD_delete(_, _)
\* FormData.delete: every entry named key removed.
FD_delete(entries, key) ==
    IF entries = <<>> THEN <<>>
    ELSE IF Head(entries).name = key
         THEN FD_delete(Tail(entries), key)
         ELSE <<Head(entries)>> \o FD_delete(Tail(entries), key)

\* FormData.set: the first entry named key replaced and the others removed,
\* or an entry appended when there is none.
FD_set(entries, key, v) ==
    IF FD_has(entries, key)
    THEN LET i == CHOOSE i \in 1..Len(entries) :
                      /\ entries[i].name = key
                      /\ \A j \in 1..(i - 1) : entries[j].name # key
         IN  SubSeq(entries, 1, i - 1) \o <<Entry(key, v)>>
             \o FD_delete(SubSeq(entries, i + 1, Len(entries)), key)
    ELSE Append(entries, Entry(key, v))

(***************************************************************************)
(* FormParser                                                              *)
(***************************************************************************)
NoParser == [cls |-> "none"]

\* Parser.constructor: the value is stored as given.
NewParser(cls, value) == [cls |-> cls, value |-> value]

\* this.value.m(...) calls a FormData method only when this.value is one.
\* Parser.valueOf of src/lib/parser.ts, inherited by the three adapters.
ParserValueOf(p) == Return(p.value)

\* valueOf on an adapter built on src/parser.ts, whose Parser declares none:
\* Object.prototype.valueOf returns the adapter itself.
PublicParserValueOf(p) == Return([t |-> p.cls, value |-> p.value])

IsFormData(v) == v.t = "FormData"

FormHas(key) ==
    IF ~IsFormData(parser.value) THEN Throw(RuntimeTypeError)
    ELSE Return(Bool(FD_has(formData, key)))

\* FormGet with a presence test in place of the falsy test.
FormGet_NullOnly(key) ==
    IF ~IsFormData(parser.value) THEN Throw(RuntimeTypeError)
    ELSE LET value == FD_get(formData, key)
         IN  IF value = Null THEN Throw(MissingKeyError(key))
             ELSE Return(value)

\* FormGet reading the last entry of the key instead of the first.
FormGet_Last(key) ==
    IF ~IsFormData(parser.value) THEN Throw(RuntimeTypeError)
    ELSE LET all == FD_getAll(formData, key)
             value == IF all = <<>> THEN Null ELSE all[Len(all)]
         IN  IF ~Truthy(value) THEN Throw(MissingKeyError(key))
             ELSE Return(value)

FormGet(key) ==
    IF ~IsFormData(parser.value) THEN Throw(RuntimeTypeError)
    ELSE LET value == FD_get(formData, key)
         IN  IF ~Truthy(value) THEN Throw(MissingKeyError(key))
             ELSE Return(value)

\* FormGetAll giving the first value only.
FormGetAll_First(key) ==
    IF ~IsFormData(parser.value) THEN Throw(RuntimeTypeError)
    ELSE LET all == FD_getAll(formData, key)
             list == Arr(IF all = <<>> THEN <<>> ELSE <<Head(all)>>)
         IN  IF ~Truthy(list) THEN Throw(MissingKeyError(key))
             ELSE Return(list)

FormGetAll(key) ==
    IF ~IsFormData(parser.value) THEN Throw(RuntimeTypeError)
    ELSE LET list == Arr(FD_getAll(formData, key))
         IN  IF ~Truthy(list) THEN Throw(MissingKeyError(key))
             ELSE Return(list)

\* FormString without the typeof test.
FormString_NoTypeTest(key) == FormGet(key)

FormString(key) ==
    LET got == FormGet(key)
    IN  IF got.k = "throw" THEN got
        ELSE IF TypeOf(got.v) = "string" THEN got
        ELSE Throw(InvalidTypeError(key, "string", TypeOf(got.v)))

FormBoolean(key) ==
    LET present == FormHas(key)
    IN  IF present.k = "throw" THEN present
        ELSE IF ~present.v.b THEN Return(Bool(FALSE))
        ELSE LET value == FormString(key)
             IN  IF value.k = "throw" THEN value
                 ELSE Return(Bool(value.v = Str(T_on)))

FormFile(key) ==
    LET got == FormGet(key)
    IN  IF got.k = "throw" THEN got
        ELSE IF got.v.t = "File" THEN got
        ELSE Throw(InvalidInstanceOfError(key, "File"))

\* FormStringArray keeping the truthy texts only.
FormStringArray_Truthy(key) ==
    LET got == FormGetAll(key)
    IN  IF got.k = "throw" THEN got
        ELSE Return(Arr(SelectSeq(got.v.items,
                                  LAMBDA v : TypeOf(v) = "string" /\ Truthy(v))))

FormStringArray(key) ==
    LET got == FormGetAll(key)
    IN  IF got.k = "throw" THEN got
        ELSE Return(Arr(SelectSeq(got.v.items, LAMBDA v : TypeOf(v) = "string")))

FormFileArray(key) ==
    LET got == FormGetAll(key)
    IN  IF got.k = "throw" THEN got
        ELSE Return(Arr(SelectSeq(got.v.items, LAMBDA v : v.t = "File")))

\* FormNumber without the Number.isNaN test.
FormNumber_NoNaNTest(key) ==
    LET got == FormGet(key)
    IN  IF got.k = "throw" THEN got
        ELSE IF TypeOf(got.v) = "number" THEN got
        ELSE IF TypeOf(got.v) = "string" THEN Return(NumberOf(got.v.s))
        ELSE Throw(InvalidTypeError(key, "number", TypeOf(got.v)))

FormNumber(key) ==
    LET got == FormGet(key)
    IN  IF got.k = "throw" THEN got
        ELSE IF TypeOf(got.v) = "number" THEN got
        ELSE IF TypeOf(got.v) = "string"
             THEN LET number == NumberOf(got.v.s)
                  IN  IF number.nan THEN Throw(CoercionError(key, "number"))
                      ELSE Return(number)
        ELSE Throw(InvalidTypeError(key, "number", TypeOf(got.v)))

\* FormParser.set(key, value): the outcome, and the entry list it leaves.
FormSet(key, value) ==
    IF ~IsFormData(parser.value) THEN Throw(RuntimeTypeError)
    ELSE Return(Undefined)

\* FormSetEntries appending the value instead of replacing the entries.
FormSetEntries_Append(key, value) ==
    IF ~IsFormData(parser.value) THEN formData
    ELSE FD_append(formData, key, Str(value))

FormSetEntries(key, value) ==
    IF ~IsFormData(parser.value) THEN formData
    ELSE FD_set(formData, key, Str(value))
(***************************************************************************)
(* FormParser over the public parser module (imports "../parser.js")       *)
(***************************************************************************)
PubFormHas(key) ==
    IF ~IsFormData(parser.value) THEN Throw(RuntimeTypeError)
    ELSE Return(Bool(FD_has(formData, key)))

PubFormGet(key) ==
    IF ~IsFormData(parser.value) THEN Throw(RuntimeTypeError)
    ELSE LET value == FD_get(formData, key)
         IN  IF ~Truthy(value) THEN Throw(PublicMissingKeyError(key))
             ELSE Return(value)

PubFormGetAll(key) ==
    IF ~IsFormData(parser.value) THEN Throw(RuntimeTypeError)
    ELSE LET list == Arr(FD_getAll(formData, key))
         IN  IF ~Truthy(list) THEN Throw(PublicMissingKeyError(key))
             ELSE Return(list)

PubFormGetString(key) ==
    LET got == PubFormGet(key)
    IN  IF got.k = "throw" THEN got
        ELSE IF TypeOf(got.v) = "string" THEN got
        ELSE Throw(PublicInvalidTypeError(key, "string", TypeOf(got.v)))

PubFormGetBoolean(key) ==
    LET present == PubFormHas(key)
    IN  IF present.k = "throw" THEN present
        ELSE IF ~present.v.b THEN Return(Bool(FALSE))
        ELSE LET value == PubFormGetString(key)
             IN  IF value.k = "throw" THEN value
                 ELSE Return(Bool(value.v = Str(T_on)))

PubFormGetFile(key) ==
    LET got == PubFormGet(key)
    IN  IF got.k = "throw" THEN got
        ELSE IF got.v.t = "File" THEN got
        ELSE Throw(PublicInvalidInstanceOfError(key, "File"))

PubFormGetStringArray(key) ==
    LET got == PubFormGetAll(key)
    IN  IF got.k = "throw" THEN got
        ELSE Return(Arr(SelectSeq(got.v.items, LAMBDA v : TypeOf(v) = "string")))

PubFormGetFileArray(key) ==
    LET got == PubFormGetAll(key)
    IN  IF got.k = "throw" THEN got
        ELSE Return(Arr(SelectSeq(got.v.items, LAMBDA v : v.t = "File")))

(***************************************************************************)
(* URL and URLSearchParams (the platform's query mapping)                  *)
(***************************************************************************)
\* The first index of character c in cs, or 0.
IndexOf(cs, c) ==
    IF \E i \in 1..Len(cs) : cs[i] = c
    THEN CHOOSE i \in 1..Len(cs) : cs[i] = c /\ \A j \in 1..(i - 1) : cs[j] # c
    ELSE 0

RECURSIVE SplitOn(_, _)
\* cs cut at every character c.
SplitOn(cs, c) ==
    LET i == IndexOf(cs, c)
    IN  IF i = 0 THEN <<cs>>
        ELSE <<SubSeq(cs, 1, i - 1)>> \o SplitOn(SubSeq(cs, i + 1, Len(cs)), c)

\* The characters a percent-encoded byte of this model's texts stands for.
PercentCodes ==
    {<<"2", "0", " ">>, <<"2", "6", "&">>, <<"3", "D", "=">>,
     <<"2", "B", "+">>, <<"2", "5", "%">>}

RECURSIVE PercentDecode(_)
PercentDecode(cs) ==
    IF cs = <<>> THEN <<>>
    ELSE IF /\ Head(cs) = "%"
            /\ Len(cs) >= 3
            /\ \E code \in PercentCodes : code[1] = cs[2] /\ code[2] = cs[3]
         THEN LET code == CHOOSE code \in PercentCodes :
                              code[1] = cs[2] /\ code[2] = cs[3]
              IN  <<code[3]>> \o PercentDecode(SubSeq(cs, 4, Len(cs)))
         ELSE <<Head(cs)>> \o PercentDecode(Tail(cs))

PlusToSpace(cs) == [i \in 1..Len(cs) |-> IF cs[i] = "+" THEN " " ELSE cs[i]]

RECURSIVE ParsePairs(_)
ParsePairs(pieces) ==
    IF pieces = <<>> THEN <<>>
    ELSE LET piece == Head(pieces)
             eq == IndexOf(piece, "=")
             nm == IF eq = 0 THEN piece ELSE SubSeq(piece, 1, eq - 1)
             val == IF eq = 0 THEN <<>> ELSE SubSeq(piece, eq + 1, Len(piece))
         IN  IF piece = <<>> THEN ParsePairs(Tail(pieces))
             ELSE <<Entry(PercentDecode(PlusToSpace(nm)),
                          PercentDecode(PlusToSpace(val)))>>
                  \o ParsePairs(Tail(pieces))

\* The application/x-www-form-urlencoded parser: a query text to the list of
\* [name, value] the URLSearchParams object holds.
ParseQuery(query) == ParsePairs(SplitOn(query, "&"))

\* The urlencoded byte serialiser over the characters of this model's texts
\* (letters, digits, space, & = + %).
EncodeChar(c) ==
    CASE c = " " -> <<"+">>
      [] c = "&" -> <<"%", "2", "6">>
      [] c = "=" -> <<"%", "3", "D">>
      [] c = "+" -> <<"%", "2", "B">>
      [] c = "%" -> <<"%", "2", "5">>
      [] OTHER -> <<c>>

RECURSIVE Encode(_)
Encode(cs) == IF cs = <<>> THEN <<>> ELSE EncodeChar(Head(cs)) \o Encode(Tail(cs))

RECURSIVE SerializeQuery(_)
\* The application/x-www-form-urlencoded serialiser.
SerializeQuery(list) ==
    IF list = <<>> THEN <<>>
    ELSE Encode(Head(list).name) \o <<"=">> \o Encode(Head(list).value)
         \o (IF Len(list) > 1 THEN <<"&">> \o SerializeQuery(Tail(list)) ELSE <<>>)

RECURSIVE QueryEncode(_)
\* The URL parser's query state: a space is stored percent-encoded.
QueryEncode(cs) ==
    IF cs = <<>> THEN <<>>
    ELSE (IF Head(cs) = " " THEN <<"%", "2", "0">> ELSE <<Head(cs)>>)
         \o QueryEncode(Tail(cs))

NoURL == [t |-> "none"]

\* new URL(text) for an http URL text without fragment: the URL record, or
\* NoURL when the text does not parse (the constructor throws a TypeError).
URLParse(cs) ==
    IF Len(cs) <= Len(HttpPrefix) \/ SubSeq(cs, 1, Len(HttpPrefix)) # HttpPrefix
    THEN NoURL
    ELSE LET rest == SubSeq(cs, Len(HttpPrefix) + 1, Len(cs))
             q == IndexOf(rest, "?")
             front == IF q = 0 THEN rest ELSE SubSeq(rest, 1, q - 1)
             slash == IndexOf(front, "/")
             host == IF slash = 0 THEN front ELSE SubSeq(front, 1, slash - 1)
         IN  IF host = <<>> THEN NoURL
             ELSE [t |-> "URL",
                   host |-> host,
                   path |-> IF slash = 0 THEN <<"/">>
                            ELSE SubSeq(front, slash, Len(front)),
                   hasQuery |-> q # 0,
                   query |-> IF q = 0 THEN <<>>
                             ELSE QueryEncode(SubSeq(rest, q + 1, Len(rest)))]

\* url.href: the URL serialiser.
HrefOf(u) ==
    HttpPrefix \o u.host \o u.path
    \o (IF u.hasQuery THEN <<"?">> \o u.query ELSE <<>>)

\* The update steps of a URLSearchParams object bound to a URL: the URL's
\* query becomes the serialised list, or null when that is empty.
URLUpdate(u, list) ==
    [u EXCEPT !.hasQuery = SerializeQuery(list) # <<>>,
              !.query = SerializeQuery(list)]

SP_has(list, key) == \E i \in 1..Len(list) : list[i].name = key

\* URLSearchParams.get: the value of the first pair named key, or null.
SP_get(list, key) ==
    IF SP_has(list, key)
    THEN Str(list[CHOOSE i \in 1..Len(list) :
                     /\ list[i].name = key
                     /\ \A j \in 1..(i - 1) : list[j].name # key].value)
    ELSE Null

SP_append(list, key, value) == Append(list, Entry(key, value))

\* URLSearchParams.set: the first pair named key takes the value and the
\* others are removed, or a pair is appended when there is none.
SP_set(list, key, value) ==
    IF SP_has(list, key)
    THEN LET i == CHOOSE i \in 1..Len(list) :
                      /\ list[i].name = key
                      /\ \A j \in 1..(i - 1) : list[j].name # key
         IN  SubSeq(list, 1, i - 1) \o <<Entry(key, value)>>
             \o FD_delete(SubSeq(list, i + 1, Len(list)), key)
    ELSE Append(list, Entry(key, value))

(***************************************************************************)
(* SearchParamsParser                                                      *)
(***************************************************************************)
InvalidURLError ==
    [cls |-> "TypeError", mod |-> "runtime", name |-> "TypeError",
     message |-> "Invalid URL"]

\* SearchParamsParserNew reading a text input as a bare query string, not as
\* a URL.
SearchParamsParserNew_TextAsQuery(input, u, list) ==
    IF TypeOf(input) = "string" THEN
        [out |-> Return(Undefined),
         parser |-> NewParser("SearchParamsParser", ParamsRef("own")),
         own |-> ParseQuery(input.s)]
    ELSE IF input.t = "Request" THEN
        [out |-> Return(Undefined),
         parser |-> NewParser("SearchParamsParser", ParamsRef("own")),
         own |-> ParseQuery(URLParse(input.url).query)]
    ELSE [out |-> Return(Undefined),
          parser |-> NewParser("SearchParamsParser",
                               IF input.t = "URL" THEN ParamsRef("u") ELSE input),
          own |-> <<>>]

\* SearchParamsParserNew copying the pairs of a URL object's searchParams
\* into a list of its own.
SearchParamsParserNew_CopyURL(input, u, list) ==
    IF TypeOf(input) = "string" THEN
        IF URLParse(input.s) = NoURL
        THEN [out |-> Throw(InvalidURLError), parser |-> NoParser, own |-> <<>>]
        ELSE [out |-> Return(Undefined),
              parser |-> NewParser("SearchParamsParser", ParamsRef("own")),
              own |-> ParseQuery(URLParse(input.s).query)]
    ELSE IF input.t = "Request" THEN
        IF URLParse(input.url) = NoURL
        THEN [out |-> Throw(InvalidURLError), parser |-> NoParser, own |-> <<>>]
        ELSE [out |-> Return(Undefined),
              parser |-> NewParser("SearchParamsParser", ParamsRef("own")),
              own |-> ParseQuery(URLParse(input.url).query)]
    ELSE IF input.t = "URL" THEN
        [out |-> Return(Undefined),
         parser |-> NewParser("SearchParamsParser", ParamsRef("own")),
         own |-> list]
    ELSE [out |-> Return(Undefined),
          parser |-> NewParser("SearchParamsParser", input),
          own |-> <<>>]

\* SearchParamsParser.constructor with the caller's URL object u and its
\* searchParams list: the outcome, the adapter, and the list of the URL
\* object the constructor builds itself from a URL text or a request.
SearchParamsParserNew(input, u, list) ==
    IF TypeOf(input) = "string" THEN
        IF URLParse(input.s) = NoURL
        THEN [out |-> Throw(InvalidURLError), parser |-> NoParser, own |-> <<>>]
        ELSE [out |-> Return(Undefined),
              parser |-> NewParser("SearchParamsParser", ParamsRef("own")),
              own |-> ParseQuery(URLParse(input.s).query)]
    ELSE IF input.t = "Request" THEN
        IF URLParse(input.url) = NoURL
        THEN [out |-> Throw(InvalidURLError), parser |-> NoParser, own |-> <<>>]
        ELSE [out |-> Return(Undefined),
              parser |-> NewParser("SearchParamsParser", ParamsRef("own")),
              own |-> ParseQuery(URLParse(input.url).query)]
    ELSE IF input.t = "URL" THEN
        [out |-> Return(Undefined),
         parser |-> NewParser("SearchParamsParser", ParamsRef("u")),
         own |-> <<>>]
    ELSE [out |-> Return(Undefined),
          parser |-> NewParser("SearchParamsParser", input),
          own |-> <<>>]

IsSearchParams(v) == v.t = "URLSearchParams"

\* The list this.value refers to.
ParamsOf(p, hp) == hp[p.value.ref]

\* SearchHas counting a key with an empty value as absent.
SearchHas_NonEmpty(p, hp, key) ==
    IF ~IsSearchParams(p.value) THEN Throw(RuntimeTypeError)
    ELSE Return(Bool(Truthy(SP_get(ParamsOf(p, hp), key))))

SearchHas(p, hp, key) ==
    IF ~IsSearchParams(p.value) THEN Throw(RuntimeTypeError)
    ELSE Return(Bool(SP_has(ParamsOf(p, hp), key)))

\* SearchGet with the falsy test of FormParser.get.
SearchGet_Falsy(p, hp, key) ==
    IF ~IsSearchParams(p.value) THEN Throw(RuntimeTypeError)
    ELSE LET value == SP_get(ParamsOf(p, hp), key)
         IN  IF ~Truthy(value) THEN Throw(MissingKeyError(key))
             ELSE Return(value)

SearchGet(p, hp, key) ==
    IF ~IsSearchParams(p.value) THEN Throw(RuntimeTypeError)
    ELSE LET value == SP_get(ParamsOf(p, hp), key)
         IN  IF value = Null THEN Throw(MissingKeyError(key))
             ELSE Return(value)

\* SearchParamsParser.set: the outcome, and the lists it leaves.
SearchSet(p, hp, key, value) ==
    IF ~IsSearchParams(p.value) THEN Throw(RuntimeTypeError)
    ELSE Return(Undefined)

\* SearchSetHeap appending a pair instead of replacing the pairs of the key.
SearchSetHeap_Append(p, hp, key, value) ==
    IF ~IsSearchParams(p.value) THEN hp
    ELSE [hp EXCEPT ![p.value.ref] = SP_append(ParamsOf(p, hp), key, value)]

SearchSetHeap(p, hp, key, value) ==
    IF ~IsSearchParams(p.value) THEN hp
    ELSE [hp EXCEPT ![p.value.ref] = SP_set(ParamsOf(p, hp), key, value)]

(***************************************************************************)
(* Objects and property keys                                               *)
(***************************************************************************)
RECURSIVE DecimalText(_)
\* The decimal digits of a natural number.
DecimalText(n) ==
    LET digit == CHOOSE c \in Digits : DigitVal(c) = n % 10
    IN  IF n < 10 THEN <<digit>> ELSE DecimalText(n \div 10) \o <<digit>>

\* Number::toString for an integer or NaN.
NumberToString(num) ==
    IF num.nan THEN T_NaN
    ELSE IF num.n < 0 THEN <<"-">> \o DecimalText(0 - num.n)
    ELSE DecimalText(num.n)

\* String(key) for a key that is a string, a number or a symbol.
StringOf(key) ==
    CASE key.t = "string" -> key.s
      [] key.t = "number" -> NumberToString(key)
      [] key.t = "symbol" -> T_SymbolOpen \o key.d \o <<")">>

\* ToPropertyKey: a number key names the property of its decimal text.
PropertyKey(key) ==
    IF key.t = "number" THEN Str(NumberToString(key)) ELSE key

\* The object a value denotes: the caller's object for ObjectRef.
Deref(v, root) == IF v = ObjectRef THEN root ELSE v

\* The index keys of an array of n items.
IndexKeys(n) == {Str(DecimalText(i - 1)) : i \in 1..n}

\* The own property keys of an object value.
OwnKeys(v) ==
    CASE v.t = "Object" -> DOMAIN v.props
      [] v.t = "Array" -> IndexKeys(Len(v.items)) \cup {Str(T_length)}
      [] OTHER -> {}

\* The keys an object inherits; of Object.prototype's members the model
\* keeps toString.
InheritedKeys(v) == {Str(T_toString)}

\* key in value, for an object value.
HasProperty(v, pk) == pk \in OwnKeys(v) \cup InheritedKeys(v)

\* value[key], for a property HasProperty finds.
GetProperty(v, pk) ==
    IF v.t = "Object" /\ pk \in DOMAIN v.props THEN v.props[pk]
    ELSE IF v.t = "Array" /\ pk \in IndexKeys(Len(v.items))
         THEN v.items[CHOOSE i \in 1..Len(v.items) : Str(DecimalText(i - 1)) = pk]
    ELSE IF v.t = "Array" /\ pk = Str(T_length) THEN Num(Len(v.items))
    ELSE IF pk = Str(T_toString) THEN Fn(T_toString)
    ELSE Undefined

\* The constructors a value is an instance of.
ClassesOf(v) ==
    CASE v.t = "Object" -> {"Object"}
      [] v.t = "Array" -> {"Array", "Object"}
      [] v.t = "Date" -> {"Date", "Object"}
      [] v.t = "File" -> {"File", "Blob", "Object"}
      [] v.t = "function" -> {"Function", "Object"}
      [] OTHER -> {}

\* Whether the in operator accepts the value as its right operand.
IsObject(v) == TypeOf(v) \in {"object", "function"} /\ v # Null

(***************************************************************************)
(* ObjectParser                                                            *)
(***************************************************************************)
\* ObjectParserNew without the null test: typeof null is "object".
ObjectParserNew_NullPasses(data) ==
    IF TypeOf(data) # "object"
    THEN [out |-> Throw(InvalidTypeError(T_object, "object", TypeOf(data))),
          parser |-> NoParser]
    ELSE [out |-> Return(Undefined), parser |-> NewParser("ObjectParser", data)]

\* ObjectParserNew reporting the expected type as the actual one.
ObjectParserNew_ExpectedAsActual(data) ==
    IF TypeOf(data) # "object" \/ data = Null
    THEN [out |-> Throw(InvalidTypeError(T_object, "object", "object")),
          parser |-> NoParser]
    ELSE [out |-> Return(Undefined), parser |-> NewParser("ObjectParser", data)]

\* ObjectParserNew without its test.
ObjectParserNew_NoTest(data) ==
    [out |-> Return(Undefined), parser |-> NewParser("ObjectParser", data)]

\* ObjectParser.constructor: the outcome and the adapter.
ObjectParserNew(data) ==
    IF TypeOf(data) # "object" \/ data = Null
    THEN [out |-> Throw(InvalidTypeError(T_object, "object", TypeOf(data))),
          parser |-> NoParser]
    ELSE [out |-> Return(Undefined), parser |-> NewParser("ObjectParser", data)]

\* ObjectHas looking at own properties only.
ObjectHas_OwnOnly(value, key) ==
    IF ~IsObject(value) THEN Throw(RuntimeTypeError)
    ELSE Return(Bool(PropertyKey(key) \in OwnKeys(value)))

\* The methods take this.value, dereferenced.
ObjectHas(value, key) ==
    IF ~IsObject(value) THEN Throw(RuntimeTypeError)
    ELSE Return(Bool(HasProperty(value, PropertyKey(key))))

\* ObjectGet reading a missing key as undefined instead of raising.
ObjectGet_Undefined(value, key) ==
    IF /\ Truthy(value)
       /\ TypeOf(value) = "object"
       /\ HasProperty(value, PropertyKey(key))
    THEN Return(GetProperty(value, PropertyKey(key)))
    ELSE Return(Undefined)

ObjectGet(value, key) ==
    IF /\ Truthy(value)
       /\ TypeOf(value) = "object"
       /\ HasProperty(value, PropertyKey(key))
    THEN Return(GetProperty(value, PropertyKey(key)))
    ELSE Throw(MissingKeyError(StringOf(key)))

\* ObjectTypeOf giving the typeof tag of the wrapped value instead of that of
\* the value under the key.
ObjectTypeOf_OfWrapped(value, key) ==
    LET got == ObjectGet(value, key)
    IN  IF got.k = "throw" THEN got ELSE Return(Str(TagText(TypeOf(value))))

ObjectTypeOf(value, key) ==
    LET got == ObjectGet(value, key)
    IN  IF got.k = "throw" THEN got ELSE Return(Str(TagText(TypeOf(got.v))))

\* ObjectTyped without the typeof test.
ObjectTyped_NoTest(value, key, type) == ObjectGet(value, key)

\* The body shared by string, number, boolean, bigint, function and symbol.
ObjectTyped(value, key, type) ==
    LET got == ObjectGet(value, key)
    IN  IF got.k = "throw" THEN got
        ELSE IF TypeOf(got.v) = type THEN got
        ELSE Throw(InvalidTypeError(StringOf(key), type, TypeOf(got.v)))

ObjectString(value, key) == ObjectTyped(value, key, "string")
ObjectNumber(value, key) == ObjectTyped(value, key, "number")
ObjectBoolean(value, key) == ObjectTyped(value, key, "boolean")
ObjectBigint(value, key) == ObjectTyped(value, key, "bigint")
ObjectFunction(value, key) == ObjectTyped(value, key, "function")
ObjectSymbol(value, key) == ObjectTyped(value, key, "symbol")

\* ObjectObject without its own null test.
ObjectObject_NoNullTest(value, key) ==
    LET got == ObjectGet(value, key)
    IN  IF got.k = "throw" THEN got
        ELSE IF TypeOf(got.v) = "object"
             THEN LET made == ObjectParserNew(got.v)
                  IN  IF made.out.k = "throw" THEN made.out
                      ELSE Return([t |-> "ObjectParser", value |-> made.parser.value])
        ELSE Throw(InvalidTypeError(StringOf(key), "object", TypeOf(got.v)))

ObjectObject(value, key) ==
    LET got == ObjectGet(value, key)
    IN  IF got.k = "throw" THEN got
        ELSE IF TypeOf(got.v) = "object" /\ got.v # Null
             THEN LET made == ObjectParserNew(got.v)
                  IN  IF made.out.k = "throw" THEN made.out
                      ELSE Return([t |-> "ObjectParser", value |-> made.parser.value])
        ELSE Throw(InvalidTypeError(StringOf(key), "object", TypeOf(got.v)))

\* ObjectArray testing the typeof tag in place of Array.isArray.
ObjectArray_ObjectTag(value, key) ==
    LET got == ObjectGet(value, key)
    IN  IF got.k = "throw" THEN got
        ELSE IF TypeOf(got.v) = "object" THEN got
        ELSE Throw(InvalidTypeError(StringOf(key), "array", TypeOf(got.v)))

ObjectArray(value, key) ==
    LET got == ObjectGet(value, key)
    IN  IF got.k = "throw" THEN got
        ELSE IF got.v.t = "Array" THEN got
        ELSE Throw(InvalidTypeError(StringOf(key), "array", TypeOf(got.v)))

\* ObjectIsNull with the loose comparison value == null.
ObjectIsNull_Loose(value, key) ==
    LET got == ObjectGet(value, key)
    IN  IF got.k = "throw" THEN got
        ELSE Return(Bool(got.v \in {Null, Undefined}))

ObjectIsNull(value, key) ==
    LET got == ObjectGet(value, key)
    IN  IF got.k = "throw" THEN got ELSE Return(Bool(got.v = Null))

ObjectIsUndefined(value, key) ==
    LET got == ObjectGet(value, key)
    IN  IF got.k = "throw" THEN got ELSE Return(Bool(got.v = Undefined))

\* ctor is the constructor's name, which is also ctor.name.
ObjectInstanceOf(value, key, ctor) ==
    LET got == ObjectGet(value, key)
    IN  IF got.k = "throw" THEN got
        ELSE IF ctor \in ClassesOf(got.v) THEN got
        ELSE Throw(InvalidInstanceOfError(StringOf(key), ctor))

\* ObjectDate accepting an instance of Object.
ObjectDate_AnyObject(value, key) == ObjectInstanceOf(value, key, "Object")

ObjectDate(value, key) == ObjectInstanceOf(value, key, "Date")

(***************************************************************************)
(* Data                                                                    *)
(***************************************************************************)
NoData == [cls |-> "none"]

\* A member of a class's prototype: its name and what its property
\* descriptor holds: "get" (a getter), "set" (a setter alone), "value" (a
\* method).
Member(key, d) == [key |-> key, d |-> d]

\* this[key] for a getter of the subclasses below: the getter's body, run
\* against the adapter p.
GetterBody(p, key) ==
    CASE key = T_name -> ObjectString(p.value, Str(T_name))
      [] key = T_emailHost ->
             LET email == ObjectString(p.value, Str(T_email))
             IN  IF email.k = "throw" THEN email
                 ELSE LET parts == SplitOn(email.v.s, "@")
                      IN  IF Len(parts) >= 2 THEN Return(Str(parts[2]))
                          ELSE Return(Undefined)
      [] key = T_id -> ObjectTypeOf(p.value, Str(T_name))

\* The names of the members whose descriptor has a get function.
GetterKeys(members) ==
    LET getters == SelectSeq(members, LAMBDA mb : mb.d = "get")
    IN  [i \in 1..Len(getters) |-> getters[i].key]

RECURSIVE Reduce(_, _, _, _)
\* keys.reduce((acc, key) => { acc[key] = this[key]; return acc }, {}), with
\* the number of times each getter ran.
Reduce(p, keys, acc, calls) ==
    IF keys = <<>> THEN [out |-> Return(Obj(acc)), calls |-> calls]
    ELSE LET key == Head(keys)
             got == GetterBody(p, key)
             counted == [calls EXCEPT ![key] = @ + 1]
         IN  IF got.k = "throw" THEN [out |-> got, calls |-> counted]
             ELSE Reduce(p, Tail(keys), (Str(key) :> got.v) @@ acc, counted)

\* No getter has run.
NoCalls == [key \in {T_name, T_emailHost, T_id} |-> 0]

\* DataToJSON taking the getters of the parent class as well.
DataToJSON_Inherited(dt) ==
    Reduce(dt.parser, GetterKeys(dt.own) \o GetterKeys(dt.parent), <<>>, NoCalls)

\* Data.toJSON: the outcome, and the number of times each getter ran.
DataToJSON(dt) == Reduce(dt.parser, GetterKeys(dt.own), <<>>, NoCalls)

(***************************************************************************)
(* The calls of a run                                                      *)
(***************************************************************************)
FormKeys == {T_name, T_age}
FormTexts == {T_empty, T_on, T_25, T_m7, T_twentyfive}
FormEntryValues == {Str(cs) : cs \in FormTexts} \cup {File(T_filetxt)}
\* Values that are no FormData, URLSearchParams or object.
BadInputs == {Null, Undefined, Num(5)}

NoCall == [op |-> "none", key |-> <<>>, arg |-> Undefined, out |-> Return(Undefined)]
Called(op, key, arg, out) == [op |-> op, key |-> key, arg |-> arg, out |-> out]

IsForm == kind = "form" /\ parser # NoParser

\* The caller, holding the FormData object, appends an entry to it.
FormDataAppend ==
    /\ kind \in {"form", "pubform"}
    /\ Len(formData) < MaxEntries
    /\ \E key \in FormKeys, v \in FormEntryValues :
           formData' = FD_append(formData, key, v)
    /\ last' = NoCall
    /\ UNCHANGED <<kind, dto, parser, queryVars, objectVars>>

\* new FormParser(input)
FormNew ==
    /\ kind = "form"
    /\ parser = NoParser
    /\ \E input \in {FormDataRef} \cup BadInputs :
           /\ parser' = NewParser("FormParser", input)
           /\ last' = Called("new", <<>>, input, Return(Undefined))
    /\ UNCHANGED <<kind, dto, formData, queryVars, objectVars>>

\* FormRead with a get that removes the entries it read.
FormRead_Consuming(op, key, out) ==
    /\ IsForm
    /\ last' = Called(op, key, Undefined, out)
    /\ formData' = IF op = "get" /\ IsFormData(parser.value)
                   THEN FD_delete(formData, key)
                   ELSE formData
    /\ UNCHANGED <<kind, dto, parser, queryVars, objectVars>>

FormRead(op, key, out) ==
    /\ IsForm
    /\ last' = Called(op, key, Undefined, out)
    /\ UNCHANGED <<kind, dto, formData, parser, queryVars, objectVars>>

CallFormHas == \E key \in FormKeys : FormRead("has", key, FormHas(key))
CallFormGet == \E key \in FormKeys : FormRead("get", key, FormGet(key))
CallFormGetAll == \E key \in FormKeys : FormRead("getAll", key, FormGetAll(key))
CallFormBoolean == \E key \in FormKeys : FormRead("boolean", key, FormBoolean(key))
CallFormString == \E key \in FormKeys : FormRead("string", key, FormString(key))
CallFormFile == \E key \in FormKeys : FormRead("file", key, FormFile(key))
CallFormStringArray ==
    \E key \in FormKeys : FormRead("stringArray", key, FormStringArray(key))
CallFormFileArray ==
    \E key \in FormKeys : FormRead("fileArray", key, FormFileArray(key))
CallFormNumber == \E key \in FormKeys : FormRead("number", key, FormNumber(key))

CallFormValueOf == FormRead("valueOf", <<>>, ParserValueOf(parser))

CallFormSet ==
    /\ IsForm
    /\ \E key \in FormKeys, value \in FormTexts :
           /\ last' = Called("set", key, Str(value), FormSet(key, value))
           /\ formData' = FormSetEntries(key, value)
    /\ UNCHANGED <<kind, dto, parser, queryVars, objectVars>>

FormNext ==
    \/ FormDataAppend
    \/ FormNew
    \/ CallFormHas
    \/ CallFormGet
    \/ CallFormGetAll
    \/ CallFormBoolean
    \/ CallFormString
    \/ CallFormFile
    \/ CallFormStringArray
    \/ CallFormFileArray
    \/ CallFormNumber
    \/ CallFormValueOf
    \/ CallFormSet

IsPubForm == kind = "pubform" /\ parser # NoParser

\* new FormParser(input), of the FormParser built on the public module
PubFormNew ==
    /\ kind = "pubform"
    /\ parser = NoParser
    /\ \E input \in {FormDataRef} \cup BadInputs :
           /\ parser' = NewParser("FormParser", input)
           /\ last' = Called("new", <<>>, input, Return(Undefined))
    /\ UNCHANGED <<kind, dto, formData, queryVars, objectVars>>

PubFormRead(op, key, out) ==
    /\ IsPubForm
    /\ last' = Called(op, key, Undefined, out)
    /\ UNCHANGED <<kind, dto, formData, parser, queryVars, objectVars>>

CallPubFormHas == \E key \in FormKeys : PubFormRead("has", key, PubFormHas(key))
CallPubFormGet == \E key \in FormKeys : PubFormRead("get", key, PubFormGet(key))
CallPubFormGetAll ==
    \E key \in FormKeys : PubFormRead("getAll", key, PubFormGetAll(key))
CallPubFormGetBoolean ==
    \E key \in FormKeys : PubFormRead("getBoolean", key, PubFormGetBoolean(key))
CallPubFormGetString ==
    \E key \in FormKeys : PubFormRead("getString", key, PubFormGetString(key))
CallPubFormGetFile ==
    \E key \in FormKeys : PubFormRead("getFile", key, PubFormGetFile(key))
CallPubFormGetStringArray ==
    \E key \in FormKeys :
        PubFormRead("getStringArray", key, PubFormGetStringArray(key))
CallPubFormGetFileArray ==
    \E key \in FormKeys :
        PubFormRead("getFileArray", key, PubFormGetFileArray(key))

CallPubFormValueOf == PubFormRead("valueOf", <<>>, PublicParserValueOf(parser))

PubFormNext ==
    \/ FormDataAppend
    \/ PubFormNew
    \/ CallPubFormHas
    \/ CallPubFormGet
    \/ CallPubFormGetAll
    \/ CallPubFormGetBoolean
    \/ CallPubFormGetString
    \/ CallPubFormGetFile
    \/ CallPubFormGetStringArray
    \/ CallPubFormGetFileArray
    \/ CallPubFormValueOf

QueryKeys == {T_name, T_q}
QueryValues == {T_empty, T_sym}
UrlTexts == {U_none, U_name, U_mixed, U_bare}

IsQuery == kind = "query" /\ parser # NoParser

\* The caller builds its URL object: new URL(text).
URLNew ==
    /\ kind = "query"
    /\ url = NoURL
    /\ parser = NoParser
    /\ heap.u = <<>>
    /\ \E text \in UrlTexts :
           /\ url' = URLParse(text)
           /\ heap' = [heap EXCEPT !.u = ParseQuery(URLParse(text).query)]
    /\ last' = NoCall
    /\ UNCHANGED <<kind, dto, parser, formVars, objectVars>>

\* The caller appends a pair to its URLSearchParams object (url.searchParams
\* when it has a URL object, whose query follows).
ParamsAppend ==
    /\ kind = "query"
    /\ Len(heap.u) < MaxParams
    /\ \E key \in QueryKeys, value \in QueryValues :
           /\ heap' = [heap EXCEPT !.u = SP_append(heap.u, key, value)]
           /\ url' = IF url = NoURL THEN url
                     ELSE URLUpdate(url, SP_append(heap.u, key, value))
    /\ last' = NoCall
    /\ UNCHANGED <<kind, dto, parser, formVars, objectVars>>

\* What the caller can hand to new SearchParamsParser(input).
QueryInputs ==
    {ParamsRef("u"), Str(U_invalid)} \cup BadInputs
    \cup {Str(text) : text \in UrlTexts}
    \cup (IF url = NoURL THEN {}
          ELSE {URLRef, Str(HrefOf(url)), Request(HrefOf(url))})

\* new SearchParamsParser(input)
QueryNew ==
    /\ kind = "query"
    /\ parser = NoParser
    /\ \E input \in QueryInputs :
           LET made == SearchParamsParserNew(input, url, heap.u)
           IN  /\ parser' = made.parser
               /\ heap' = [heap EXCEPT !.own = made.own]
               /\ last' = Called("new", <<>>, input, made.out)
    /\ UNCHANGED <<kind, dto, url, formVars, objectVars>>

QueryRead(op, key, out) ==
    /\ IsQuery
    /\ last' = Called(op, key, Undefined, out)
    /\ UNCHANGED <<kind, dto, parser, queryVars, formVars, objectVars>>

CallSearchHas ==
    \E key \in QueryKeys : QueryRead("has", key, SearchHas(parser, heap, key))
CallSearchGet ==
    \E key \in QueryKeys : QueryRead("get", key, SearchGet(parser, heap, key))

CallSearchValueOf == QueryRead("valueOf", <<>>, ParserValueOf(parser))

CallSearchSet ==
    /\ IsQuery
    /\ \E key \in QueryKeys, value \in QueryValues :
           /\ last' = Called("set", key, Str(value),
                             SearchSet(parser, heap, key, value))
           /\ heap' = SearchSetHeap(parser, heap, key, value)
           /\ url' = IF url # NoURL /\ parser.value = ParamsRef("u")
                     THEN URLUpdate(url, SearchSetHeap(parser, heap, key, value).u)
                     ELSE url
    /\ UNCHANGED <<kind, dto, parser, formVars, objectVars>>

\* The caller appends a pair to the URLSearchParams object that valueOf() has
\* just handed out: the list the adapter reads.
ValueOfAppend ==
    /\ IsQuery
    /\ IsSearchParams(parser.value)
    /\ last.op = "valueOf"
    /\ Len(ParamsOf(parser, heap)) < MaxParams
    /\ \E key \in QueryKeys, value \in QueryValues :
           LET list == SP_append(ParamsOf(parser, heap), key, value)
           IN  /\ heap' = [heap EXCEPT ![parser.value.ref] = list]
               /\ url' = IF url # NoURL /\ parser.value = ParamsRef("u")
                         THEN URLUpdate(url, list)
                         ELSE url
    /\ last' = NoCall
    /\ UNCHANGED <<kind, dto, parser, formVars, objectVars>>

QueryNext ==
    \/ URLNew
    \/ ParamsAppend
    \/ QueryNew
    \/ CallSearchHas
    \/ CallSearchGet
    \/ CallSearchValueOf
    \/ CallSearchSet
    \/ ValueOfAppend

\* The keys handed to the accessors: a string, a number, the name of an
\* inherited property, and a symbol.
ObjKeys == {Str(T_name), Num(0), Str(T_toString), Sym(T_s)}
\* The property keys the caller assigns.
AssignKeys == {Str(T_name)}
Nested == Obj(Str(T_name) :> Str(T_Alice))
Nested2 == Obj(Str(T_name) :> Nested)
NonObjects ==
    {Null, Undefined, Num(5), Str(T_Alice), Bool(TRUE), BigIntV(1), Sym(T_s),
     Fn(T_f)}
ObjValues ==
    {Null, Undefined, Num(20), Str(T_Alice), Bool(TRUE), BigIntV(1), Sym(T_s),
     Fn(T_f), Arr(<<Str(T_Alice)>>), DateV(0), Nested, Nested2}
\* A constructor, by name.
Ctor(nm) == [t |-> "function", ctor |-> nm]
Ctors == {"Date", "Array"}

IsObjectParser == kind = "object" /\ parser # NoParser

\* The caller assigns a property of its object.
ObjectAssign ==
    /\ kind = "object"
    /\ \E pk \in AssignKeys, v \in ObjValues :
           object' = Obj((pk :> v) @@ object.props)
    /\ last' = NoCall
    /\ UNCHANGED <<kind, dto, parser, formVars, queryVars>>

\* What the caller can hand to new ObjectParser(data).
ObjectInputs == {ObjectRef, Arr(<<Str(T_Alice)>>)} \cup NonObjects

\* new ObjectParser(data)
ObjectNew ==
    /\ kind = "object"
    /\ parser = NoParser
    /\ \E data \in ObjectInputs :
           /\ parser' = ObjectParserNew(data).parser
           /\ last' = Called("new", <<>>, data, ObjectParserNew(data).out)
    /\ UNCHANGED <<kind, dto, formVars, queryVars, objectVars>>

\* The caller goes on with the adapter that object(key) returned.
ObjectDescend ==
    /\ IsObjectParser
    /\ last.op = "object"
    /\ last.out.k = "return"
    /\ parser' = NewParser("ObjectParser", last.out.v.value)
    /\ last' = NoCall
    /\ UNCHANGED <<kind, dto, formVars, queryVars, objectVars>>

ObjectRead(op, key, arg, out) ==
    /\ IsObjectParser
    /\ last' = Called(op, key, arg, out)
    /\ UNCHANGED <<kind, dto, parser, formVars, queryVars, objectVars>>

\* this.value of the adapter under call.
This == Deref(parser.value, object)

CallObjectHas ==
    \E key \in ObjKeys : ObjectRead("has", key, Undefined, ObjectHas(This, key))
CallObjectGet ==
    \E key \in ObjKeys : ObjectRead("get", key, Undefined, ObjectGet(This, key))
CallObjectTypeOf ==
    \E key \in ObjKeys :
        ObjectRead("typeOf", key, Undefined, ObjectTypeOf(This, key))
CallObjectString ==
    \E key \in ObjKeys :
        ObjectRead("string", key, Undefined, ObjectString(This, key))
CallObjectNumber ==
    \E key \in ObjKeys :
        ObjectRead("number", key, Undefined, ObjectNumber(This, key))
CallObjectBoolean ==
    \E key \in ObjKeys :
        ObjectRead("boolean", key, Undefined, ObjectBoolean(This, key))
CallObjectObject ==
    \E key \in ObjKeys :
        ObjectRead("object", key, Undefined, ObjectObject(This, key))
CallObjectArray ==
    \E key \in ObjKeys :
        ObjectRead("array", key, Undefined, ObjectArray(This, key))
CallObjectBigint ==
    \E key \in ObjKeys :
        ObjectRead("bigint", key, Undefined, ObjectBigint(This, key))
CallObjectFunction ==
    \E key \in ObjKeys :
        ObjectRead("function", key, Undefined, ObjectFunction(This, key))
CallObjectSymbol ==
    \E key \in ObjKeys :
        ObjectRead("symbol", key, Undefined, ObjectSymbol(This, key))
CallObjectIsNull ==
    \E key \in ObjKeys :
        ObjectRead("isNull", key, Undefined, ObjectIsNull(This, key))
CallObjectIsUndefined ==
    \E key \in ObjKeys :
        ObjectRead("isUndefined", key, Undefined, ObjectIsUndefined(This, key))
CallObjectDate ==
    \E key \in ObjKeys : ObjectRead("date", key, Undefined, ObjectDate(This, key))
CallObjectInstanceOf ==
    \E key \in ObjKeys, ctor \in Ctors :
        ObjectRead("instanceOf", key, Ctor(ctor), ObjectInstanceOf(This, key, ctor))

CallObjectValueOf ==
    ObjectRead("valueOf", <<>>, Undefined, ParserValueOf(parser))

ObjectNext ==
    \/ ObjectAssign
    \/ ObjectNew
    \/ ObjectDescend
    \/ CallObjectHas
    \/ CallObjectGet
    \/ CallObjectTypeOf
    \/ CallObjectString
    \/ CallObjectNumber
    \/ CallObjectBoolean
    \/ CallObjectObject
    \/ CallObjectArray
    \/ CallObjectBigint
    \/ CallObjectFunction
    \/ CallObjectSymbol
    \/ CallObjectIsNull
    \/ CallObjectIsUndefined
    \/ CallObjectDate
    \/ CallObjectInstanceOf
    \/ CallObjectValueOf

(***************************************************************************)
(* Specifications                                                          *)
(***************************************************************************)
InitOf(knd) ==
    /\ kind = knd
    /\ formData = <<>>
    /\ url = NoURL
    /\ heap = [u |-> <<>>, own |-> <<>>]
    /\ object = Obj(<<>>)
    /\ parser = NoParser
    /\ dto = NoData
    /\ last = NoCall

\* The members a subclass of Data may define, in definition order.
OwnMembers ==
    <<Member(T_name, "get"), Member(T_label, "value"),
      Member(T_emailHost, "get"), Member(T_nick, "set")>>

RECURSIVE Pick(_, _)
\* The members of the sequence whose positions are in the set, in order.
Pick(members, positions) ==
    IF members = <<>> THEN <<>>
    ELSE (IF Len(members) \in positions THEN Pick(SubSeq(members, 1, Len(members) - 1), positions) \o <<members[Len(members)]>>
          ELSE Pick(SubSeq(members, 1, Len(members) - 1), positions))

\* The prototypes of the subclasses: the constructor and some of OwnMembers.
OwnShapes ==
    {<<Member(T_constructor, "value")>> \o Pick(OwnMembers, positions) :
         positions \in SUBSET (1..Len(OwnMembers))}

\* The prototype of the class between Data and the subclass, when there is
\* one.
ParentShapes == {<<>>, <<Member(T_constructor, "value"), Member(T_id, "get")>>}

\* The objects behind the adapter a Data instance is given.
Backings ==
    {Obj(names @@ emails) :
         names \in {<<>>, Str(T_name) :> Str(T_Alice), Str(T_name) :> Num(20)},
         emails \in {<<>>, Str(T_email) :> Str(T_mail),
                     Str(T_email) :> Str(T_nomail)}}

\* new MyData(new ObjectParser(object))
DataNew ==
    /\ kind = "data"
    /\ dto = NoData
    /\ \E own \in OwnShapes, parent \in ParentShapes, backing \in Backings :
           dto' = [cls |-> "Data", own |-> own, parent |-> parent,
                    parser |-> ObjectParserNew(backing).parser,
                    calls |-> NoCalls]
    /\ last' = Called("new", <<>>, Undefined, Return(Undefined))
    /\ UNCHANGED <<kind, parser, formVars, queryVars, objectVars>>

\* data.toJSON()
CallDataToJSON ==
    /\ kind = "data"
    /\ dto # NoData
    /\ last' = Called("toJSON", <<>>, Undefined, DataToJSON(dto).out)
    /\ dto' = [dto EXCEPT !.calls = DataToJSON(dto).calls]
    /\ UNCHANGED <<kind, parser, formVars, queryVars, objectVars>>

\* data.name, data.emailHost, data.id: one getter read by the caller.
CallDataGetter ==
    /\ kind = "data"
    /\ dto # NoData
    /\ \E i \in 1..Len(GetterKeys(dto.own \o dto.parent)) :
           LET key == GetterKeys(dto.own \o dto.parent)[i]
           IN  last' = Called("getter", key, Undefined,
                              GetterBody(dto.parser, key))
    /\ UNCHANGED <<kind, dto, parser, formVars, queryVars, objectVars>>

DataNext ==
    \/ DataNew
    \/ CallDataToJSON
    \/ CallDataGetter

FormInit == InitOf("form")
FormSpec == FormInit /\ [][FormNext]_vars

QueryInit == InitOf("query")
QuerySpec == QueryInit /\ [][QueryNext]_vars

ObjectInit == InitOf("object")
ObjectSpec == ObjectInit /\ [][ObjectNext]_vars

\* A run exercises one adapter class, whichever the caller picks.
PubFormInit == InitOf("pubform")
PubFormSpec == PubFormInit /\ [][PubFormNext]_vars

DataInit == InitOf("data")
DataSpec == DataInit /\ [][DataNext]_vars

Init == \E knd \in {"form", "pubform", "query", "object", "data"} : InitOf(knd)
Next == FormNext \/ PubFormNext \/ QueryNext \/ ObjectNext \/ DataNext
Spec == Init /\ [][Next]_vars
(***************************************************************************)
(* Properties of the form adapter                                          *)
(***************************************************************************)
\* The adapter under call is a FormParser bound to the FormData object.
OnFormData == kind = "form" /\ parser # NoParser /\ IsFormData(parser.value)

\* The entries of the FormData object named key, in insertion order.
EntriesOf(key) == SelectSeq(formData, LAMBDA e : e.name = key)

IsThrowOf(out, cls, message) ==
    out.k = "throw" /\ out.e.cls = cls /\ out.e.message = message

\* C2: boolean(key) never raises: it returns false when the key is absent,
\* true when the first entry is the text "on", and false for any other first
\* entry, the empty text and a file included.
C2_BooleanNeverRaises ==
    (OnFormData /\ last.op = "boolean") =>
        LET es == EntriesOf(last.key)
        IN  last.out = Return(Bool(es # <<>> /\ es[1].value = Str(T_on)))

C9_GetFirstEntryOrMissing ==
    (OnFormData /\ last.op = "get") =>
        LET es == EntriesOf(last.key)
            missing == "Key \"" \o Join(last.key) \o "\" does not exist"
        IN  /\ es = <<>> =>
                /\ IsThrowOf(last.out, "Parser.MissingKeyError", missing)
                /\ FormHas(last.key) = Return(Bool(FALSE))
            /\ (es # <<>> /\ es[1].value = Str(T_empty)) =>
                /\ IsThrowOf(last.out, "Parser.MissingKeyError", missing)
                /\ FormHas(last.key) = Return(Bool(TRUE))
            /\ (es # <<>> /\ es[1].value # Str(T_empty)) =>
                last.out = Return(es[1].value)

\* C9's case: get was called on a key whose first entry is the empty text.
C9_Witness ==
    /\ OnFormData /\ last.op = "get" /\ last.out.k = "throw"
    /\ EntriesOf(last.key) # <<>>
    /\ EntriesOf(last.key)[1].value = Str(T_empty)

\* The number each text of FormTexts spells, when it spells one.
SpelledNumbers == {<<T_25, 25>>, <<T_m7, 0 - 7>>}

\* C10: number(k) raises MissingKey when get(k) does; returns a numeric first
\* entry unchanged; for a text first entry returns the number it spells, or
\* raises Coercion(k, "number") when it spells none; and raises
\* InvalidType(k, "number", actual type) for any other entry, such as a file.
C10_NumberOutcomes ==
    (OnFormData /\ last.op = "number") =>
        LET got == FormGet(last.key)
            es == EntriesOf(last.key)
            first == es[1].value
        IN  /\ got.k = "throw" =>
                /\ last.out = got
                /\ got.e.cls = "Parser.MissingKeyError"
            /\ got.k = "return" =>
                /\ first.t = "number" => last.out = Return(first)
                /\ first.t = "string" =>
                    /\ \A p \in SpelledNumbers :
                           first.s = p[1] => last.out = Return(Num(p[2]))
                    /\ (\A p \in SpelledNumbers : first.s # p[1]) =>
                           IsThrowOf(last.out, "Parser.CoercionError",
                               "Key \"" \o Join(last.key)
                                   \o "\" could not be coerced to number")
                /\ first.t = "File" =>
                       IsThrowOf(last.out, "Parser.InvalidTypeError",
                           "Key \"" \o Join(last.key)
                               \o "\" expected number but got object")

\* C10's case: number was called on a key whose first entry is a text that
\* spells no number.
C10_Witness ==
    /\ OnFormData /\ last.op = "number"
    /\ EntriesOf(last.key) # <<>>
    /\ EntriesOf(last.key)[1].value = Str(T_twentyfive)
    /\ last.out.k = "throw"
\* C11: string(k) returns the first entry iff it is text and otherwise raises
\* InvalidType(k, "string", actual type), the actual type of a file being
\* "object"; file(k) returns the first entry iff it is a file and otherwise
\* raises InvalidInstanceOf(k, "File"); both raise MissingKey, before any
\* type check, whenever get(k) does.
C11_StringAndFileNarrow ==
    (OnFormData /\ last.op \in {"string", "file"}) =>
        LET got == FormGet(last.key)
            es == EntriesOf(last.key)
            first == es[1].value
        IN  /\ got.k = "throw" =>
                /\ last.out = got
                /\ got.e.cls = "Parser.MissingKeyError"
            /\ (got.k = "return" /\ last.op = "string") =>
                /\ first.t = "string" => last.out = Return(first)
                /\ first.t # "string" =>
                       /\ first.t = "File"
                       /\ IsThrowOf(last.out, "Parser.InvalidTypeError",
                              "Key \"" \o Join(last.key)
                                  \o "\" expected string but got object")
            /\ (got.k = "return" /\ last.op = "file") =>
                /\ first.t = "File" => last.out = Return(first)
                /\ first.t # "File" =>
                       IsThrowOf(last.out, "Parser.InvalidInstanceOfError",
                           "Key \"" \o Join(last.key)
                               \o "\" expected instance of File")

\* C11's case: string was called on a key whose first entry is a file.
C11_Witness ==
    /\ OnFormData /\ last.op = "string"
    /\ EntriesOf(last.key) # <<>>
    /\ EntriesOf(last.key)[1].value.t = "File"
    /\ last.out.k = "throw"

\* The values of the entries named key, in insertion order.
ValuesOf(key) == [i \in 1..Len(EntriesOf(key)) |-> EntriesOf(key)[i].value]

RECURSIVE Keep(_, _)
\* The subsequence of the values whose tag is t.
Keep(vs, t) ==
    IF vs = <<>> THEN <<>>
    ELSE IF vs[1].t = t THEN <<vs[1]>> \o Keep(Tail(vs), t)
    ELSE Keep(Tail(vs), t)

OnParams == kind = "query" /\ parser # NoParser /\ IsSearchParams(parser.value)

\* The keys a query-string property ranges over: the keys of the calls, the
\* names the caller's list holds, and a key no list holds.
KeysOfInterest ==
    QueryKeys \cup {heap.u[i].name : i \in 1..Len(heap.u)} \cup {T_age}

\* C6: for any URL u, the adapters constructed from the URL object u, from
\* u's text form, from a request targeting u and from the flat mapping
\* extracted from u give the same has(k) and the same get(k) outcome, for
\* every key k.
C6_FourShapesAgree ==
    (kind = "query" /\ url # NoURL) =>
        LET made(input) == SearchParamsParserNew(input, url, heap.u)
            hp(input) == [heap EXCEPT !.own = made(input).own]
            flat == ParamsRef("u")
        IN  \A input \in {URLRef, Str(HrefOf(url)), Request(HrefOf(url))} :
                /\ made(input).out = Return(Undefined)
                /\ \A key \in KeysOfInterest :
                       /\ SearchHas(made(input).parser, hp(input), key)
                              = SearchHas(made(flat).parser, hp(flat), key)
                       /\ SearchGet(made(input).parser, hp(input), key)
                              = SearchGet(made(flat).parser, hp(flat), key)

\* C6's case: an adapter was constructed from the text form of a URL whose
\* query the caller had changed to hold characters that are percent-encoded.
C6_Witness ==
    /\ kind = "query" /\ url # NoURL /\ parser # NoParser
    /\ last.op = "new" /\ last.arg = Str(HrefOf(url))
    /\ parser.value = ParamsRef("own")
    /\ Len(heap.u) >= 2
    /\ \E i \in 1..Len(heap.u) : heap.u[i].value = T_sym /\ heap.u[i].name = T_q

\* C7: after set(k, v), has(k) is true and get(k) returns exactly v, for any
\* list, any key and any text v, the empty text included.
C7_SetThenGet ==
    (OnParams /\ last.op = "set") =>
        /\ SearchHas(parser, heap, last.key) = Return(Bool(TRUE))
        /\ SearchGet(parser, heap, last.key) = Return(last.arg)
        /\ last.arg.t = "string"

\* C7's case: set was called with the empty text on a list that holds other
\* pairs.
C7_Witness ==
    /\ OnParams /\ last.op = "set" /\ last.arg = Str(T_empty)
    /\ Len(ParamsOf(parser, heap)) >= 2

\* C8: get(k) raises MissingKey if and only if has(k) is false: a key present
\* with an empty value is present, has(k) is true and get(k) returns the
\* empty text; for a key with a non-empty value get(k) returns that text.
C8_GetMissingIffAbsent ==
    (OnParams /\ last.op = "get") =>
        LET list == ParamsOf(parser, heap)
            named == SelectSeq(list, LAMBDA e : e.name = last.key)
        IN  /\ SearchHas(parser, heap, last.key) = Return(Bool(named # <<>>))
            /\ named = <<>> =>
                   IsThrowOf(last.out, "Parser.MissingKeyError",
                       "Key \"" \o Join(last.key) \o "\" does not exist")
            /\ named # <<>> => last.out = Return(Str(named[1].value))
            /\ (last.key = T_name /\ list = <<Entry(T_name, T_Alice)>>) =>
                   last.out = Return(Str(T_Alice))

\* C8's case: get was called on a key present with an empty value.
C8_Witness ==
    /\ OnParams /\ last.op = "get" /\ last.out = Return(Str(T_empty))
    /\ \E i \in 1..Len(ParamsOf(parser, heap)) :
           ParamsOf(parser, heap)[i] = Entry(last.key, T_empty)
(***************************************************************************)
(* Properties across the adapters                                          *)
(***************************************************************************)
OnObject == kind = "object" /\ parser # NoParser

\* The text String(key) gives for each key of ObjKeys.
KeyTexts ==
    {<<Str(T_name), "name">>, <<Num(0), "0">>, <<Str(T_toString), "toString">>,
     <<Sym(T_s), "Symbol(s)">>}

MissingMessage(text) == "Key \"" \o text \o "\" does not exist"

NotAnObject(v) == TypeOf(v) # "object" \/ v = Null

\* C4 as stated: no adapter of any of the three kinds is constructed over a
\* null, undefined or non-object backing value; construction with one fails
\* at once with InvalidType.
C4_NoAdapterOverNonObject ==
    /\ parser # NoParser => ~NotAnObject(parser.value)
    /\ (last.op = "new" /\ NotAnObject(last.arg)
            /\ ~(kind = "query" /\ last.arg.t = "string")) =>
           (last.out.k = "throw" /\ last.out.e.cls = "Parser.InvalidTypeError")

\* C4 as amended: the generic-object adapter is never constructed over a
\* null, undefined or non-object value, its construction failing at once with
\* InvalidType(key "object", expected "object", actual the runtime type);
\* the form and query-string constructors validate nothing: over such a value
\* they succeed, and every later call that reads the value (any accessor but
\* valueOf, and set) raises the runtime's TypeError.
C4_OnlyObjectAdapterValidates ==
    /\ kind = "object" =>
        /\ parser # NoParser => ~NotAnObject(Deref(parser.value, object))
        /\ (last.op = "new" /\ NotAnObject(last.arg)) =>
            /\ parser = NoParser
            /\ IsThrowOf(last.out, "Parser.InvalidTypeError",
                   "Key \"object\" expected object but got " \o TypeOf(last.arg))
        /\ (last.op = "new" /\ ~NotAnObject(last.arg)) =>
            /\ last.out = Return(Undefined)
            /\ parser = NewParser("ObjectParser", last.arg)
    /\ (kind \in {"form", "query"} /\ last.op = "new" /\ last.arg \in BadInputs) =>
        /\ last.out = Return(Undefined)
        /\ parser # NoParser /\ parser.value = last.arg
    /\ (/\ kind \in {"form", "query"}
        /\ parser # NoParser
        /\ parser.value \in BadInputs
        /\ last.op \notin {"none", "new", "valueOf"}) =>
           IsThrowOf(last.out, "TypeError", RuntimeTypeError.message)

\* C4's case: a form adapter constructed over null, whose first accessor call
\* then failed.
C4_Witness ==
    /\ kind = "form" /\ parser # NoParser /\ parser.value = Null
    /\ last.op = "has" /\ last.out.k = "throw"

\* The classes of the four error kinds.
KindClasses ==
    {"Parser.MissingKeyError", "Parser.InvalidTypeError",
     "Parser.InvalidInstanceOfError", "Parser.CoercionError"}

\* C5: the four error kinds all derive from one parser-specific root, so a
\* single root check intercepts every validation error an adapter raises, and
\* the four kinds are pairwise distinct by type and by name; this holds for
\* the classes of the module that defines the raised error, the public parser
\* module included.
C5_OneRootFourKinds ==
    (last.out.k = "throw" /\ last.out.e.cls \in KindClasses) =>
        LET mod == last.out.e.mod
        IN  /\ IsParserError(mod, last.out.e)
            /\ KindClasses \subseteq Exported(mod)
            /\ \A c \in KindClasses : "Parser.Error" \in Ancestors(mod, c)
            /\ \A c, d \in KindClasses : c # d => NameOf(mod, c) # NameOf(mod, d)

(***************************************************************************)
(* Properties of the generic-object adapter                                *)
(***************************************************************************)
\* The inputs that are no non-null object, with the tag typeof gives each.
InputTags ==
    {<<Null, "object">>, <<Undefined, "undefined">>, <<Num(5), "number">>,
     <<Str(T_Alice), "string">>, <<Bool(TRUE), "boolean">>,
     <<BigIntV(1), "bigint">>, <<Sym(T_s), "symbol">>, <<Fn(T_f), "function">>}

\* C13: new ObjectParser(input) succeeds iff the input is a non-null object;
\* for a string, number, boolean, bigint, symbol, function, undefined or null
\* it raises InvalidType with the message
\* Key "object" expected object but got <tag>, <tag> the input's typeof tag.
C13_ConstructionIffObject ==
    (kind = "object" /\ last.op = "new") =>
        /\ last.out.k = "return" <=> (\A p \in InputTags : p[1] # last.arg)
        /\ last.out.k = "return" =>
               /\ last.arg.t \in {"ObjectRef", "Array"}
               /\ parser = NewParser("ObjectParser", last.arg)
        /\ \A p \in InputTags :
               p[1] = last.arg =>
                   /\ parser = NoParser
                   /\ last.out.k = "throw"
                   /\ last.out.e.cls = "Parser.InvalidTypeError"
                   /\ last.out.e.name = "ParserInvalidTypeError"
                   /\ last.out.e.message =
                          "Key \"object\" expected object but got " \o p[2]

\* C13's case: construction over null was attempted and raised.
C13_Witness ==
    /\ kind = "object" /\ last.op = "new" /\ last.arg = Null
    /\ last.out.k = "throw" /\ parser = NoParser

\* The value an adapter record wraps, with the caller's object for ObjectRef.
BackingOf(p) == Deref(p.value, object)

\* C14 as stated: the backing value of every ObjectParser, constructed
\* directly or returned by object(key), is an object that is neither null nor
\* an array.
C14_BackingNeitherNullNorArray ==
    kind = "object" =>
        /\ parser # NoParser =>
               /\ TypeOf(BackingOf(parser)) = "object"
               /\ BackingOf(parser) # Null
               /\ BackingOf(parser).t # "Array"
        /\ (last.op = "object" /\ last.out.k = "return") =>
               /\ TypeOf(BackingOf(last.out.v)) = "object"
               /\ BackingOf(last.out.v) # Null
               /\ BackingOf(last.out.v).t # "Array"

\* C14 as amended: the backing value of every ObjectParser, constructed
\* directly or returned by object(key), is a non-null value whose typeof tag
\* is "object"; it may be an array.
C14_BackingNonNullObject ==
    kind = "object" =>
        /\ parser # NoParser =>
               /\ TypeOf(BackingOf(parser)) = "object"
               /\ BackingOf(parser) # Null
        /\ (last.op = "object" /\ last.out.k = "return") =>
               /\ TypeOf(BackingOf(last.out.v)) = "object"
               /\ BackingOf(last.out.v) # Null

\* C14's case: object(key) returned an adapter that wraps an array.
C14_Witness ==
    /\ kind = "object" /\ parser # NoParser
    /\ last.op = "object" /\ last.out.k = "return"
    /\ BackingOf(last.out.v).t = "Array"


\* Whether key names an own or inherited property of the object v, spelled
\* out for the keys of ObjKeys.
Present(v, key) ==
    CASE key = Str(T_toString) -> TRUE
      [] key = Sym(T_s) -> FALSE
      [] key = Str(T_name) -> v.t = "Object" /\ Str(T_name) \in DOMAIN v.props
      [] key = Num(0) -> v.t = "Array" /\ Len(v.items) > 0

\* The value v stores under a key that is present.
Stored(v, key) ==
    CASE key = Str(T_toString) -> Fn(T_toString)
      [] key = Str(T_name) -> v.props[Str(T_name)]
      [] key = Num(0) -> v.items[1]

\* String(key), as a string.
KeyText(key) == (CHOOSE kt \in KeyTexts : kt[1] = key)[2]

\* C15: has(k) is true exactly when k is an own or inherited property of the
\* backing value; get(k) raises MissingKey iff has(k) is false, and otherwise
\* returns the raw value stored under k, undefined and null included.
C15_HasAndGetSamePresence ==
    OnObject =>
        /\ \A key \in ObjKeys :
               /\ ObjectHas(This, key) = Return(Bool(Present(This, key)))
               /\ ObjectGet(This, key).k = "throw" <=> ~Present(This, key)
        /\ last.op = "has" => last.out = Return(Bool(Present(This, last.key)))
        /\ last.op = "get" =>
               IF Present(This, last.key)
               THEN last.out = Return(Stored(This, last.key))
               ELSE IsThrowOf(last.out, "Parser.MissingKeyError",
                              MissingMessage(KeyText(last.key)))

\* C15's case: get was called on a key that is present with the value
\* undefined.
C15_Witness ==
    /\ OnObject /\ last.op = "get" /\ last.key = Str(T_name)
    /\ Present(This, last.key)
    /\ Stored(This, last.key) = Undefined
    /\ last.out = Return(Undefined)

\* The typeof tag of each shape of value a property holds.
ValueTags ==
    {<<"undefined", "undefined">>, <<"null", "object">>, <<"string", "string">>,
     <<"number", "number">>, <<"boolean", "boolean">>, <<"bigint", "bigint">>,
     <<"symbol", "symbol">>, <<"function", "function">>, <<"Array", "object">>,
     <<"Date", "object">>, <<"Object", "object">>}

TagOfValue(v) == (CHOOSE p \in ValueTags : p[1] = v.t)[2]

\* C16: for T in string, number, boolean, bigint, function, symbol, T(k) on a
\* present key returns the stored value unchanged iff its typeof tag is T,
\* and otherwise raises InvalidType with the message
\* Key "<k>" expected <T> but got <actual tag>; nothing is coerced.
C16_TypedAccessorsStrict ==
    (/\ OnObject
     /\ last.op \in {"string", "number", "boolean", "bigint", "function", "symbol"}
     /\ Present(This, last.key)) =>
        LET v == Stored(This, last.key)
            tag == TagOfValue(v)
        IN  /\ last.out.k = "return" <=> tag = last.op
            /\ last.out.k = "return" => last.out.v = v
            /\ last.out.k = "throw" =>
                   IsThrowOf(last.out, "Parser.InvalidTypeError",
                       "Key \"" \o KeyText(last.key) \o "\" expected "
                           \o last.op \o " but got " \o tag)

\* C16's case: string was called on a key that holds a number.
C16_Witness ==
    /\ OnObject /\ last.op = "string" /\ last.key = Str(T_name)
    /\ Present(This, last.key) /\ Stored(This, last.key) = Num(20)
    /\ IsThrowOf(last.out, "Parser.InvalidTypeError",
                 "Key \"name\" expected string but got number")


\* C17: object(k) on a present key whose value is not an object raises
\* InvalidType(k, "object", actual), actual the typeof tag of the value, null
\* included; on an object value it returns a new ObjectParser whose wrapped
\* value is the nested object itself.
C17_ObjectWrapsOrRaises ==
    (OnObject /\ last.op = "object" /\ Present(This, last.key)) =>
        LET v == Stored(This, last.key)
        IN  IF v.t \in {"Object", "Array", "Date"}
            THEN last.out = Return([t |-> "ObjectParser", value |-> v])
            ELSE IsThrowOf(last.out, "Parser.InvalidTypeError",
                     "Key \"" \o KeyText(last.key)
                         \o "\" expected object but got " \o TagOfValue(v))

\* C17's case: object was called on a key that holds null.
C17_Witness ==
    /\ OnObject /\ last.op = "object" /\ last.key = Str(T_name)
    /\ Present(This, last.key) /\ Stored(This, last.key) = Null
    /\ IsThrowOf(last.out, "Parser.InvalidTypeError",
                 "Key \"name\" expected object but got object")

\* C18: array(k) on a present key returns the stored value unchanged iff it
\* is an array, and otherwise raises InvalidType(k, "array", actual), actual
\* the typeof tag of the value: "object" for a non-array object and for null.
C18_ArrayOrRaises ==
    (OnObject /\ last.op = "array" /\ Present(This, last.key)) =>
        LET v == Stored(This, last.key)
        IN  IF v.t = "Array"
            THEN last.out = Return(v)
            ELSE IsThrowOf(last.out, "Parser.InvalidTypeError",
                     "Key \"" \o KeyText(last.key)
                         \o "\" expected array but got " \o TagOfValue(v))

\* C18's case: array was called on a key that holds a plain object.
C18_Witness ==
    /\ OnObject /\ last.op = "array" /\ last.key = Str(T_name)
    /\ Present(This, last.key) /\ Stored(This, last.key).t = "Object"
    /\ IsThrowOf(last.out, "Parser.InvalidTypeError",
                 "Key \"name\" expected array but got object")

\* C19: isNull(k) and isUndefined(k) raise MissingKey when k is absent and
\* otherwise return a boolean: isNull(k) is true iff the stored value is
\* null, isUndefined(k) iff it is undefined; a key present with the value
\* undefined has has(k) = true and isUndefined(k) = true.
C19_IsNullIsUndefined ==
    (OnObject /\ last.op \in {"isNull", "isUndefined"}) =>
        IF Present(This, last.key)
        THEN LET v == Stored(This, last.key)
             IN  /\ last.op = "isNull" => last.out = Return(Bool(v.t = "null"))
                 /\ last.op = "isUndefined" =>
                        last.out = Return(Bool(v.t = "undefined"))
                 /\ ObjectHas(This, last.key) = Return(Bool(TRUE))
        ELSE IsThrowOf(last.out, "Parser.MissingKeyError",
                       MissingMessage(KeyText(last.key)))

\* C19's case: isUndefined was called on a key present with the value
\* undefined.
C19_Witness ==
    /\ OnObject /\ last.op = "isUndefined" /\ last.key = Str(T_name)
    /\ Present(This, last.key) /\ Stored(This, last.key) = Undefined
    /\ last.out = Return(Bool(TRUE))

\* Whether the value is an instance of the constructor named c, for the
\* constructors of Ctors.
InstanceOfCtor(v, c) ==
    \/ c = "Date" /\ v.t = "Date"
    \/ c = "Array" /\ v.t = "Array"

\* The outcome the statement gives instanceOf(key, c) on the object v.
InstanceOutcome(v, key, c) ==
    IF ~Present(v, key)
    THEN Throw(MissingKeyError(StringOf(key)))
    ELSE IF InstanceOfCtor(Stored(v, key), c) THEN Return(Stored(v, key))
    ELSE Throw(InvalidInstanceOfError(StringOf(key), c))

\* C20: instanceOf(k, ctor) raises MissingKey when k is absent, returns the
\* stored value unchanged iff it is an instance of ctor, and otherwise raises
\* InvalidInstanceOf with the message
\* Key "<k>" expected instance of <ctor.name>; date(k) has the outcome of
\* instanceOf(k, Date) for every backing state and key.
C20_InstanceOfAndDate ==
    OnObject =>
        /\ \A key \in ObjKeys :
               ObjectDate(This, key) = ObjectInstanceOf(This, key, "Date")
        /\ last.op = "date" => last.out = InstanceOutcome(This, last.key, "Date")
        /\ last.op = "instanceOf" =>
               /\ last.out = InstanceOutcome(This, last.key, last.arg.ctor)
               /\ (Present(This, last.key) /\ last.out.k = "throw") =>
                      IsThrowOf(last.out, "Parser.InvalidInstanceOfError",
                          "Key \"" \o KeyText(last.key)
                              \o "\" expected instance of " \o last.arg.ctor)
               /\ ~Present(This, last.key) =>
                      IsThrowOf(last.out, "Parser.MissingKeyError",
                                MissingMessage(KeyText(last.key)))

\* C20's case: instanceOf(key, Array) was called on a key that holds a Date.
C20_Witness ==
    /\ OnObject /\ last.op = "instanceOf" /\ last.key = Str(T_name)
    /\ last.arg = Ctor("Array")
    /\ Present(This, last.key) /\ Stored(This, last.key).t = "Date"
    /\ IsThrowOf(last.out, "Parser.InvalidInstanceOfError",
                 "Key \"name\" expected instance of Array")


(***************************************************************************)
(* Properties of the error messages                                        *)
(***************************************************************************)
\* The key of the last call, as the text String(key) gives; the constructor
\* of ObjectParser reports the key "object".
LastKeyText ==
    IF last.op = "new" THEN "object"
    ELSE IF kind = "object" THEN KeyText(last.key)
    ELSE Join(last.key)

\* The expected type each operation names when it raises InvalidType; the
\* form adapter's boolean raises through string.
ExpectedOf(op) ==
    CASE op \in {"getString", "getBoolean"} -> "string"
      [] op = "boolean" /\ kind = "form" -> "string"
      [] op = "new" -> "object"
      [] OTHER -> op

\* The class each operation names when it raises InvalidInstanceOf.
ClassNamedBy(call) ==
    CASE call.op \in {"file", "getFile"} -> "File"
      [] call.op = "date" -> "Date"
      [] call.op = "instanceOf" -> call.arg.ctor

TypeTags == {p[2] : p \in ValueTags}

\* C21: the message of each error kind is its template filled with the
\* arguments of the failure site: Key "<k>" does not exist,
\* Key "<k>" expected <e> but got <a>, Key "<k>" expected instance of <c>,
\* Key "<k>" could not be coerced to <t>; <k> is the key passed to the
\* failing accessor of the adapter, converted to text.
C21_MessagesFollowTemplates ==
    (kind # "data" /\ last.out.k = "throw" /\ last.out.e.cls \in KindClasses) =>
        LET e == last.out.e
            k == "Key \"" \o LastKeyText \o "\""
        IN  /\ e.cls = "Parser.MissingKeyError" =>
                   e.message = k \o " does not exist"
            /\ e.cls = "Parser.InvalidTypeError" =>
                   \E a \in TypeTags :
                       e.message = k \o " expected " \o ExpectedOf(last.op)
                                     \o " but got " \o a
            /\ e.cls = "Parser.InvalidInstanceOfError" =>
                   e.message = k \o " expected instance of " \o ClassNamedBy(last)
            /\ e.cls = "Parser.CoercionError" =>
                   e.message = k \o " could not be coerced to number"

\* C21's case: number(0) over an array whose first item is a text raised
\* InvalidType, the numeric key converted to text.
C21_Witness ==
    /\ OnObject /\ last.op = "number" /\ last.key = Num(0)
    /\ IsThrowOf(last.out, "Parser.InvalidTypeError",
                 "Key \"0\" expected number but got string")


(***************************************************************************)
(* Properties of the binding between an adapter and its wrapped input      *)
(***************************************************************************)
\* The step in which the caller goes on with the adapter object(key) gave it,
\* which is another instance.
OtherInstance ==
    /\ kind = "object"
    /\ last.op = "object"
    /\ last.out.k = "return"
    /\ last'.op = "none"

\* C22: every adapter's valueOf() returns, at any time, the backing value the
\* adapter was bound to at construction, and that binding never changes over
\* the adapter's lifetime, whatever accessors or mutators are called.
C22_ValueOfReturnsBinding ==
    /\ [](last.op = "valueOf" => last.out = Return(parser.value))
    /\ [][(parser # NoParser /\ ~OtherInstance) => parser' = parser]_vars


(***************************************************************************)
(* Properties of Data                                                      *)
(***************************************************************************)
\* The names of the getters the instance's own class defines.
OwnGetters == {dto.own[i].key : i \in {j \in 1..Len(dto.own) : dto.own[j].d = "get"}}

\* C23: toJSON() returns a plain mapping whose keys are exactly the getter
\* properties defined in the subclass, each mapped to the value its getter
\* returns, each getter having run exactly once in the call.
C23_ToJSONCollectsGetters ==
    (kind = "data" /\ last.op = "toJSON") =>
        /\ last.out.k = "return" =>
               /\ last.out.v.t = "Object"
               /\ DOMAIN last.out.v.props = {Str(key) : key \in OwnGetters}
               /\ \A key \in OwnGetters :
                      /\ GetterBody(dto.parser, key).k = "return"
                      /\ last.out.v.props[Str(key)] = GetterBody(dto.parser, key).v
                      /\ dto.calls[key] = 1
               /\ \A key \in DOMAIN dto.calls \ OwnGetters : dto.calls[key] = 0
        /\ last.out.k = "throw" =>
               /\ \E key \in OwnGetters : GetterBody(dto.parser, key) = last.out
               /\ \A key \in DOMAIN dto.calls : dto.calls[key] <= 1

\* C23's case: toJSON over {name: "Alice", email: "a@co"} of a subclass that
\* defines the getters name and emailHost, a method and a setter, under a
\* parent class with a getter of its own.
C23_Witness ==
    /\ kind = "data" /\ last.op = "toJSON"
    /\ Len(dto.own) = 5 /\ dto.parent # <<>>
    /\ last.out = Return(Obj((Str(T_name) :> Str(T_Alice))
                             @@ (Str(T_emailHost) :> Str(<<"c", "o">>))))


(***************************************************************************)
(* Properties of the read accessors                                        *)
(***************************************************************************)
\* The read accessors of the adapters, by the name of the call.
ReadOps ==
    {"has", "get", "getAll", "boolean", "string", "file", "stringArray",
     "fileArray", "number", "getBoolean", "getString", "getFile",
     "getStringArray", "getFileArray", "typeOf", "bigint", "function", "symbol",
     "object", "array", "isNull", "isUndefined", "date", "instanceOf", "valueOf"}

\* What the wrapped inputs hold, and which adapter is bound to which.
backing == <<formData, url, heap, object, parser>>

\* The outcome of the last call's accessor, were it called again now with the
\* same key: for each adapter, and for all.
FormAgain ==
    CASE last.op = "has" -> FormHas(last.key)
      [] last.op = "get" -> FormGet(last.key)
      [] last.op = "getAll" -> FormGetAll(last.key)
      [] last.op = "boolean" -> FormBoolean(last.key)
      [] last.op = "string" -> FormString(last.key)
      [] last.op = "file" -> FormFile(last.key)
      [] last.op = "stringArray" -> FormStringArray(last.key)
      [] last.op = "fileArray" -> FormFileArray(last.key)
      [] last.op = "number" -> FormNumber(last.key)

PubFormAgain ==
    CASE last.op = "has" -> PubFormHas(last.key)
      [] last.op = "get" -> PubFormGet(last.key)
      [] last.op = "getAll" -> PubFormGetAll(last.key)
      [] last.op = "getBoolean" -> PubFormGetBoolean(last.key)
      [] last.op = "getString" -> PubFormGetString(last.key)
      [] last.op = "getFile" -> PubFormGetFile(last.key)
      [] last.op = "getStringArray" -> PubFormGetStringArray(last.key)
      [] last.op = "getFileArray" -> PubFormGetFileArray(last.key)

QueryAgain ==
    CASE last.op = "has" -> SearchHas(parser, heap, last.key)
      [] last.op = "get" -> SearchGet(parser, heap, last.key)

ObjectAgain ==
    CASE last.op = "has" -> ObjectHas(This, last.key)
      [] last.op = "get" -> ObjectGet(This, last.key)
      [] last.op = "typeOf" -> ObjectTypeOf(This, last.key)
      [] last.op = "object" -> ObjectObject(This, last.key)
      [] last.op = "array" -> ObjectArray(This, last.key)
      [] last.op = "isNull" -> ObjectIsNull(This, last.key)
      [] last.op = "isUndefined" -> ObjectIsUndefined(This, last.key)
      [] last.op = "date" -> ObjectDate(This, last.key)
      [] last.op = "instanceOf" -> ObjectInstanceOf(This, last.key, last.arg.ctor)
      [] OTHER -> ObjectTyped(This, last.key, last.op)

Again ==
    IF last.op = "valueOf"
    THEN (IF kind = "pubform" THEN PublicParserValueOf(parser)
          ELSE ParserValueOf(parser))
    ELSE IF kind = "form" THEN FormAgain
    ELSE IF kind = "pubform" THEN PubFormAgain
    ELSE IF kind = "query" THEN QueryAgain
    ELSE ObjectAgain

\* C24: every read accessor of every adapter leaves the backing value
\* unchanged, whether it returns or raises, and is idempotent: the same
\* accessor called again with the same key, no set in between, gives the same
\* outcome.
C24_ReadsArePure ==
    /\ []((kind # "data" /\ last.op \in ReadOps) => last.out = Again)
    /\ [][(kind # "data" /\ last'.op \in ReadOps) => UNCHANGED backing]_vars
    /\ [][(/\ kind # "data"
           /\ last.op \in ReadOps
           /\ last'.op = last.op
           /\ last'.key = last.key
           /\ last'.arg = last.arg) => last'.out = last.out]_vars

\* C24's case: a read accessor raised, over a form that holds entries.
C24_Witness ==
    /\ kind = "form" /\ parser # NoParser
    /\ Len(formData) = 2
    /\ last.op = "file" /\ last.out.k = "throw"

(***************************************************************************)
(* Claims about sharing of the query-string adapter's backing list.        *)
(***************************************************************************)

\* A second adapter built from the caller's flat mapping.
OtherAdapter == SearchParamsParserNew(ParamsRef("u"), url, heap.u).parser

\* The query component of the caller's URL object, read back as a list.
QueryOfURL == ParseQuery(url.query)

\* C25: the query-string adapter is a view without isolation.  An adapter
\* built from a URL object or from a flat mapping is bound to the caller's
\* own list, so after set(k, v) through it a second adapter over the same
\* mapping answers has(k) with true and get(k) with v, and the query
\* component of the caller's URL object holds the same list; whatever the
\* caller appends to its list the adapter reads.  An adapter built from URL
\* text or from a request is bound to a list of its own: its set leaves the
\* caller's list and URL unchanged, and a change of the caller's list leaves
\* its list unchanged.
C25_SharedView ==
    /\ []((kind = "query" /\ last.op = "new" /\ last.out.k = "return") =>
            parser.value =
                IF TypeOf(last.arg) = "string" \/ last.arg.t = "Request"
                THEN ParamsRef("own")
                ELSE IF last.arg.t = "URL" THEN ParamsRef("u")
                ELSE last.arg)
    /\ []((OnParams /\ parser.value = ParamsRef("u")) =>
            /\ url # NoURL => QueryOfURL = heap.u
            /\ last.op = "set" =>
                   /\ SearchHas(OtherAdapter, heap, last.key) = Return(Bool(TRUE))
                   /\ SearchGet(OtherAdapter, heap, last.key) = Return(last.arg)
                   /\ url # NoURL => SP_get(QueryOfURL, last.key) = last.arg)
    /\ [][(OnParams /\ parser.value = ParamsRef("u") /\ heap'.u # heap.u) =>
            \A key \in QueryKeys :
                /\ SearchHas(parser', heap', key) = Return(Bool(SP_has(heap'.u, key)))
                /\ SP_has(heap'.u, key) =>
                       SearchGet(parser', heap', key) = Return(SP_get(heap'.u, key))]_vars
    /\ [][(OnParams /\ parser.value = ParamsRef("own")) =>
            /\ last'.op = "set" => (heap'.u = heap.u /\ url' = url)
            /\ heap'.u # heap.u => heap'.own = heap.own]_vars

\* An adapter over the searchParams of the caller's URL object has set a key
\* the URL's query did not hold before the adapter was built.
C25_Witness ==
    /\ OnParams
    /\ parser.value = ParamsRef("u")
    /\ url # NoURL
    /\ last.op = "set"
    /\ Len(heap.u) = 2
    /\ heap.u[1].name # heap.u[2].name

(***************************************************************************)
(* Claims about who holds the wrapped input.                               *)
(***************************************************************************)

\* What the presence and retrieval accessors answer, for every key.
Answers ==
    IF kind = "form"
    THEN [key \in FormKeys |-> <<FormHas(key), FormGet(key), FormGetAll(key)>>]
    ELSE IF kind = "pubform"
    THEN [key \in FormKeys |->
              <<PubFormHas(key), PubFormGet(key), PubFormGetAll(key)>>]
    ELSE IF kind = "query"
    THEN [key \in QueryKeys |->
              <<SearchHas(parser, heap, key), SearchGet(parser, heap, key)>>]
    ELSE [key \in ObjKeys |-> <<ObjectHas(This, key), ObjectGet(This, key)>>]

\* A step taken outside the adapter, by the code that supplied the input or
\* through the value valueOf() handed out.
Outside ==
    /\ kind # "data"
    /\ parser # NoParser
    /\ parser' = parser
    /\ last'.op = "none"

\* C26 as stated: the wrapped input is owned by the adapter alone, so no
\* step taken outside the adapter changes what its accessors answer.
C26_ExclusivelyOwned == [][Outside => Answers' = Answers]_vars

\* C26: the adapter keeps the reference it was given and shares it with the
\* code that supplied it.  Every entry the caller appends to the FormData
\* after construction changes an answer of the form adapter, and every
\* property the caller changes on its object changes an answer of the
\* generic-object adapter over it.  Only the query-string adapter built from
\* URL text or from a request reads a list the supplier cannot reach: its
\* answers change outside the adapter only through the value that valueOf()
\* handed out.
C26_ReferenceShared ==
    /\ [][(Outside /\ OnFormData) => Answers' # Answers]_vars
    /\ [][(Outside /\ OnObject /\ parser.value = ObjectRef /\ object' # object) =>
            Answers' # Answers]_vars
    /\ [][(Outside /\ OnParams /\ parser.value = ParamsRef("own")
             /\ Answers' # Answers) =>
            (last.op = "valueOf" /\ heap'.own # heap.own /\ heap'.u = heap.u)]_vars

\* The caller has appended an entry to the FormData after the form adapter
\* was built over it, and the adapter's getAll gives both entries.
C26_Witness ==
    /\ OnFormData
    /\ last.op = "none"
    /\ \E key \in FormKeys :
           /\ FormGetAll(key).k = "return"
           /\ Len(FormGetAll(key).v.items) = 2

(***************************************************************************)
(* Claims about the effect of the query-string set.                        *)
(***************************************************************************)

\* The keys a list holds.
NamesOf(list) == {list[i].name : i \in 1..Len(list)}

\* C27: set(k, v) of the query-string adapter changes only key k.  For every
\* other key the outcomes of has and get are the same before and after the
\* call; after the call the list holds exactly one pair named k, whose value
\* is v, however many it held before, so get(k) returns the value of the
\* last set.
C27_SetChangesOnlyItsKey ==
    [][(OnParams /\ last'.op = "set") =>
         LET before == ParamsOf(parser, heap)
             after == ParamsOf(parser', heap')
         IN  /\ \A other \in (QueryKeys \cup NamesOf(before) \cup {T_age})
                                 \ {last'.key} :
                    /\ SearchHas(parser', heap', other) = SearchHas(parser, heap, other)
                    /\ SearchGet(parser', heap', other) = SearchGet(parser, heap, other)
             /\ Cardinality({i \in 1..Len(after) : after[i].name = last'.key}) = 1
             /\ SearchGet(parser', heap', last'.key) = Return(last'.arg)
             /\ Len(after) = Len(SelectSeq(before, LAMBDA e : e.name # last'.key)) + 1
       ]_vars

\* A set on the adapter's own list, which also holds a pair of another key.
C27_Witness ==
    /\ OnParams
    /\ parser.value = ParamsRef("own")
    /\ last.op = "set"
    /\ Len(heap.own) = 2
    /\ \E i \in 1..2 : heap.own[i].name # last.key

(***************************************************************************)
(* Claims about the single-value and multi-value views of the form adapter. *)
(***************************************************************************)

\* The outcome many is a returned array whose first element is x.
FirstOf(many, x) ==
    /\ many.k = "return"
    /\ many.v.t = "Array"
    /\ many.v.items # <<>>
    /\ Head(many.v.items) = x

\* C28: over a FormData, whenever a single-value accessor returns, the
\* multi-value accessor of the same kind returns an array that starts with
\* the same value: get(k) with has(k) true and getAll(k), string(k) with
\* stringArray(k), file(k) with fileArray(k).
C28_SingleIsFirstOfMany ==
    OnFormData =>
        \A key \in FormKeys :
            /\ FormGet(key).k = "return" =>
                   /\ FormHas(key) = Return(Bool(TRUE))
                   /\ FirstOf(FormGetAll(key), FormGet(key).v)
            /\ FormString(key).k = "return" =>
                   FirstOf(FormStringArray(key), FormString(key).v)
            /\ FormFile(key).k = "return" =>
                   FirstOf(FormFileArray(key), FormFile(key).v)

\* file(k) has returned the first of two entries of k, the second a text.
C28_Witness ==
    /\ OnFormData
    /\ last.op = "file"
    /\ last.out.k = "return"
    /\ Len(EntriesOf(last.key)) = 2
    /\ TypeOf(EntriesOf(last.key)[2].value) = "string"
    /\ FirstOf(FormFileArray(last.key), last.out.v)

(***************************************************************************)
(* Claims about typeOf and the primitive typed accessors.                  *)
(***************************************************************************)

PrimitiveOps == {"string", "number", "boolean", "bigint", "function", "symbol"}

\* C29: for the generic-object adapter, typeOf(k) raises MissingKey when k
\* is absent and otherwise returns the typeof tag of the value stored under
\* k; of string, number, boolean, bigint, function and symbol, the accessor
\* named by that tag returns the stored value and every other one raises
\* InvalidType, so that all six raise when the tag is "object" or
\* "undefined".
C29_TypeOfNamesTheAccessor ==
    OnObject =>
        \A key \in ObjKeys :
            LET tag == ObjectTypeOf(This, key)
            IN  IF ~Present(This, key)
                THEN IsThrowOf(tag, "Parser.MissingKeyError",
                               MissingMessage(KeyText(key)))
                ELSE /\ tag.k = "return"
                     /\ TypeOf(tag.v) = "string"
                     /\ Join(tag.v.s) = TagOfValue(Stored(This, key))
                     /\ \A op \in PrimitiveOps :
                            LET out == ObjectTyped(This, key, op)
                            IN  IF op = Join(tag.v.s)
                                THEN out = Return(Stored(This, key))
                                ELSE IsThrowOf(out, "Parser.InvalidTypeError",
                                         "Key \"" \o KeyText(key) \o "\" expected "
                                             \o op \o " but got " \o Join(tag.v.s))
                     /\ Join(tag.v.s) \in {"object", "undefined"} =>
                            \A op \in PrimitiveOps :
                                ObjectTyped(This, key, op).k = "throw"

\* typeOf has answered "object" for a key that holds null.
C29_Witness ==
    /\ OnObject
    /\ last.op = "typeOf"
    /\ last.out.k = "return"
    /\ Join(last.out.v.s) = "object"
    /\ Present(This, last.key)
    /\ Stored(This, last.key) = Null

(***************************************************************************)
(* Claims about the errors that leave an adapter.                          *)
(***************************************************************************)

\* The module the caller of the running adapter imports Parser from.
CallerModule == IF kind = "pubform" THEN "public" ELSE "lib"

\* The error e is one of the four kinds and passes the root check.
InTaxonomy(e) == e.cls \in KindClasses /\ IsParserError(CallerModule, e)

\* C30 as stated: every failure an adapter operation raises, at construction
\* or at access time, is one of the four kinds and passes the root check.
C30_OnlyTaxonomyErrors == last.out.k = "throw" => InTaxonomy(last.out.e)

\* The input of new SearchParamsParser was a text, or a request whose URL
\* text, does not parse as a URL.
UnparsableInput ==
    /\ kind = "query"
    /\ last.op = "new"
    /\ \/ TypeOf(last.arg) = "string" /\ URLParse(last.arg.s) = NoURL
       \/ last.arg.t = "Request" /\ URLParse(last.arg.url) = NoURL

\* The running adapter is a form or query-string adapter built over a value
\* that is no FormData and no URLSearchParams.
OverBadInput ==
    /\ kind \in {"form", "query"}
    /\ parser # NoParser
    /\ parser.value \in BadInputs

\* C30: with the adapters of src/lib, a failure is one of the four kinds,
\* passing the root check, or the runtime's TypeError, which does not.  The
\* generic-object adapter and the data object over it raise kinds of the
\* taxonomy only, construction over a non-object included.  The TypeError
\* leaves the query-string constructor exactly when it is given URL text that
\* does not parse, and leaves has, get and every accessor built on them of a
\* form or query-string adapter that wraps a value of the wrong type.
C30_TaxonomyOrRuntimeTypeError ==
    /\ (kind # "pubform" /\ last.out.k = "throw") =>
           \/ InTaxonomy(last.out.e)
           \/ last.out.e = InvalidURLError /\ UnparsableInput
           \/ /\ last.out.e = RuntimeTypeError
              /\ OverBadInput
              /\ last.op \notin {"new", "valueOf"}
    /\ (kind \in {"object", "data"} /\ last.out.k = "throw") =>
           InTaxonomy(last.out.e)
    /\ UnparsableInput => last.out = Throw(InvalidURLError)
    /\ (OverBadInput /\ last.op \notin {"none", "new", "valueOf"}) =>
           (last.out = Throw(RuntimeTypeError) /\ ~InTaxonomy(last.out.e))

\* new SearchParamsParser was given a text that is no URL and the runtime's
\* TypeError came out.
C30_Witness ==
    /\ UnparsableInput
    /\ TypeOf(last.arg) = "string"
    /\ last.out.k = "throw"
    /\ last.out.e.name = "TypeError"
    /\ ~InTaxonomy(last.out.e)

==============================================================================
